---- MODULE Spec2Model ----
(***************************************************************************)
(* Front end of the NEM compiler: lexer, recursive-descent parser,         *)
(* diagnostics collector and constant expression evaluator, as state       *)
(* machines and operators translated from the Python sources.              *)
(*                                                                         *)
(* A source text is a sequence of one-character strings; a lexeme is a     *)
(* sequence of characters too, so that slicing and keyword lookup are      *)
(* computed as the code computes them.                                     *)
(***************************************************************************)
EXTENDS Integers, Sequences, FiniteSets, TLC

(***************************************************************************)
(* Characters and Python's str predicates.                                 *)
(***************************************************************************)
DecimalDigits == {"0", "1", "2", "3", "4", "5", "6", "7", "8", "9"}

\* U+00B2 SUPERSCRIPT TWO stands for the characters for which str.isdigit()
\* is true although int() does not accept them.
SUP2 == "sup2"

LowerLetters == {"a", "b", "c", "d", "e", "f", "g", "h", "i", "j", "k", "l", "m", "n", "o", "p", "q", "r", "s", "t", "u", "v", "w", "x", "y", "z"}

UpperLetters == {"A", "B", "C", "D", "E", "F", "G", "H", "I", "J", "K", "L", "M", "N", "O", "P", "Q", "R", "S", "T", "U", "V", "W", "X", "Y", "Z"}

isdigit(c) == c \in DecimalDigits \cup {SUP2}

isalpha(c) == c \in LowerLetters \cup UpperLetters

isalnum(c) == isalpha(c) \/ isdigit(c)

(***************************************************************************)
(* Tokens.                                                                 *)
(***************************************************************************)
Token(kind, lexeme, line, col) ==
  [kind |-> kind, lexeme |-> lexeme, line |-> line, col |-> col]

KEYWORDS ==
  {
    <<<<"p", "r", "o", "g", "r", "a", "m">>, "PROGRAM">>,
    <<<<"d", "e", "v", "i", "c", "e">>, "DEVICE">>,
    <<<<"c", "o", "n", "s", "t">>, "CONST">>,
    <<<<"b", "u", "f", "f", "e", "r">>, "BUFFER">>,
    <<<<"l", "e", "t">>, "LET">>,
    <<<<"l", "o", "o", "p">>, "LOOP">>,
    <<<<"e", "n", "d", "l", "o", "o", "p">>, "ENDLOOP">>,
    <<<<"i", "n">>, "IN">>,
    <<<<"o", "u", "t">>, "OUT">>,
    <<<<"i", "n", "c", "l", "u", "d", "e">>, "INCLUDE">>,
    <<<<"t", "r", "a", "n", "s", "f", "e", "r">>, "TRANSFER">>,
    <<<<"s", "t", "o", "r", "e">>, "STORE">>,
    <<<<"w", "a", "i", "t">>, "WAIT">>,
    <<<<"r", "e", "g", "i", "o", "n">>, "REGION">>,
    <<<<"e", "x", "t", "e", "n", "d", "s">>, "EXTENDS">>,
    <<<<"t", "y", "p", "e", "_", "f", "a", "m", "i", "l", "y">>, "TYPE_FAMILY">>,
    <<<<"o", "p", "c", "o", "d", "e">>, "OPCODE">>,
    <<<<"t", "o", "p", "o", "l", "o", "g", "y">>, "TOPOLOGY">>,
    <<<<"m", "a", "n", "d", "a", "t", "o", "r", "y">>, "MANDATORY">>,
    <<<<"e", "x", "t", "e", "n", "d", "e", "d">>, "EXTENDED">>,
    <<<<"s", "p", "e", "c", "_", "v", "e", "r", "s", "i", "o", "n">>, "SPEC_VERSION">>,
    <<<<"i", "4">>, "I4">>,
    <<<<"i", "8">>, "I8">>,
    <<<<"i", "1", "6">>, "I16">>,
    <<<<"i", "3", "2">>, "I32">>,
    <<<<"u", "8">>, "U8">>,
    <<<<"u", "1", "6">>, "U16">>,
    <<<<"u", "3", "2">>, "U32">>,
    <<<<"f", "1", "6">>, "F16">>,
    <<<<"b", "f", "1", "6">>, "BF16">>,
    <<<<"t", "f", "3", "2">>, "TF32">>,
    <<<<"f", "3", "2">>, "F32">>,
    <<<<"f", "6", "4">>, "F64">>,
    <<<<"b", "o", "o", "l">>, "BOOL_TYPE">>,
    <<<<"D", "D", "R">>, "DDR">>,
    <<<<"L", "2">>, "L2">>,
    <<<<"L", "1">>, "L1">>,
    <<<<"s", "i", "z", "e">>, "SIZE">>,
    <<<<"a", "l", "i", "g", "n">>, "ALIGN">>,
    <<<<"e", "l", "e", "m">>, "ELEM">>,
    <<<<"s", "h", "a", "p", "e">>, "SHAPE">>,
    <<<<"l", "a", "y", "o", "u", "t">>, "LAYOUT">>,
    <<<<"s", "t", "r", "i", "d", "e", "s">>, "STRIDES">>,
    <<<<"q", "u", "a", "n", "t">>, "QUANT">>,
    <<<<"d", "e", "p", "s">>, "DEPS">>,
    <<<<"a", "s", "y", "n", "c">>, "ASYNC">>,
    <<<<"s", "y", "n", "c">>, "SYNC">>,
    <<<<"m", "o", "d">>, "MOD">>
  }

\* KEYWORDS.get(lexeme, TokenKind.IDENT)
KEYWORDS_get(lexeme) ==
  IF \E e \in KEYWORDS : e[1] = lexeme
  THEN (CHOOSE e \in KEYWORDS : e[1] = lexeme)[2]
  ELSE "IDENT"

_SINGLE_CHAR ==
  [c \in {"+", "-", "*", "/", "(", ")", "[", "]", "{", "}", ":", ";", ",", "=", "@", "<", ">"} |->
     CASE c = "+" -> "PLUS"
       [] c = "-" -> "MINUS"
       [] c = "*" -> "STAR"
       [] c = "/" -> "SLASH"
       [] c = "(" -> "LPAREN"
       [] c = ")" -> "RPAREN"
       [] c = "[" -> "LBRACKET"
       [] c = "]" -> "RBRACKET"
       [] c = "{" -> "LBRACE"
       [] c = "}" -> "RBRACE"
       [] c = ":" -> "COLON"
       [] c = ";" -> "SEMICOLON"
       [] c = "," -> "COMMA"
       [] c = "=" -> "EQUALS"
       [] c = "@" -> "AT"
       [] c = "<" -> "LANGLE"
       [] c = ">" -> "RANGLE"]

(***************************************************************************)
(* Diagnostics.  A record of the collector: severity, the message, the     *)
(* values interpolated into it (detail, a sequence) and the location.      *)
(***************************************************************************)
Diagnostic(severity, message, detail, line, col) ==
  [severity |-> severity, message |-> message, detail |-> detail,
   line |-> line, col |-> col]

\* DiagnosticCollector.error: the record appended by one call
error(message, detail, line, col) ==
  Diagnostic("ERROR", message, detail, line, col)

\* DiagnosticCollector.warning
warning(message, detail, line, col) ==
  Diagnostic("WARNING", message, detail, line, col)

\* DiagnosticCollector.info
info(message, detail, line, col) ==
  Diagnostic("INFO", message, detail, line, col)

\* has_errors with the warnings counted as errors
has_errors_or_warnings(ds) == \E i \in 1..Len(ds) : ds[i].severity # "INFO"

\* DiagnosticCollector.has_errors over the record sequence
has_errors(ds) == \E i \in 1..Len(ds) : ds[i].severity = "ERROR"

(***************************************************************************)
(* Lexer.  A lexer state is [pos, line, col, tokens, last_was_newline];    *)
(* pos counts the characters consumed, so the current character is         *)
(* src[pos + 1].                                                           *)
(***************************************************************************)
\* Lexer._peek(offset): '' at and past the end
_peek(src, L, offset) ==
  LET idx == L.pos + offset
  IN  IF idx < Len(src) THEN src[idx + 1] ELSE ""

\* an _advance that counts every character as one more column of the line
_advance_on_one_line(src, L) == [L EXCEPT !.pos = @ + 1, !.col = @ + 1]

\* Lexer._advance: consume one character, updating line and column
_advance(src, L) ==
  LET ch == src[L.pos + 1]
  IN  [L EXCEPT !.pos = @ + 1,
                !.line = IF ch = "\n" THEN @ + 1 ELSE @,
                !.col = IF ch = "\n" THEN 1 ELSE @ + 1]

\* Lexer._at_end
_at_end(src, L) == L.pos >= Len(src)

RECURSIVE _skip_comment(_, _)
\* Lexer._skip_comment: up to, not including, the newline
_skip_comment(src, L) ==
  IF ~_at_end(src, L) /\ _peek(src, L, 0) # "\n"
  THEN _skip_comment(src, _advance(src, L))
  ELSE L

\* escape_map.get(esc, "\\" + esc) of _scan_string
escape_map(esc) ==
  CASE esc = "n" -> <<"\n">>
    [] esc = "t" -> <<"\t">>
    [] esc = "\\" -> <<"\\">>
    [] esc = "\"" -> <<"\"">>
    [] OTHER -> <<"\\", esc>>

RECURSIVE _scan_string(_, _, _, _, _)
\* Lexer._scan_string, the opening quote already consumed; chars is the
\* list built so far.  Yields the lexer state, the token and the errors.
_scan_string(src, L, chars, start_line, start_col) ==
  IF _at_end(src, L)
  THEN [L |-> L,
        tok |-> Token("STRING_LIT", <<"\"">> \o chars, start_line, start_col),
        errs |-> <<error("Unterminated string literal", <<>>, start_line, start_col)>>]
  ELSE
    LET ch == _peek(src, L, 0)
        L1 == _advance(src, L)
    IN  IF ch = "\""
        THEN [L |-> L1,
              tok |-> Token("STRING_LIT", (<<"\"">> \o chars) \o <<"\"">>,
                            start_line, start_col),
              errs |-> <<>>]
        ELSE IF ch = "\\"
        THEN IF _at_end(src, L1)
             THEN \* break, then the code after the loop
                  [L |-> L1,
                   tok |-> Token("STRING_LIT", <<"\"">> \o chars, start_line, start_col),
                   errs |-> <<error("Unterminated escape in string literal", <<>>,
                                    L1.line, L1.col),
                              error("Unterminated string literal", <<>>,
                                    start_line, start_col)>>]
             ELSE _scan_string(src, _advance(src, L1),
                               chars \o escape_map(_peek(src, L1, 0)),
                               start_line, start_col)
        ELSE IF ch = "\n"
        THEN [L |-> L1,
              tok |-> Token("STRING_LIT", <<"\"">> \o chars, start_line, start_col),
              errs |-> <<error("Unterminated string literal (newline in string)", <<>>,
                               start_line, start_col)>>]
        ELSE _scan_string(src, L1, Append(chars, ch), start_line, start_col)

RECURSIVE _scan_digits(_, _)
\* while not self._at_end() and self._peek().isdigit(): self._advance()
_scan_digits(src, L) ==
  IF ~_at_end(src, L) /\ isdigit(_peek(src, L, 0))
  THEN _scan_digits(src, _advance(src, L))
  ELSE L

\* _scan_number taking any '.' after the digits as a decimal point, without
\* looking at the character after it
_scan_number_any_dot(src, L, start_line, start_col) ==
  LET begin == L.pos - 1
      L1 == _scan_digits(src, L)
  IN  IF _peek(src, L1, 0) = "."
      THEN LET L3 == _scan_digits(src, _advance(src, L1))
           IN  [L |-> L3,
                tok |-> Token("FLOAT_LIT", SubSeq(src, begin + 1, L3.pos),
                              start_line, start_col),
                errs |-> <<>>]
      ELSE [L |-> L1,
            tok |-> Token("INT_LIT", SubSeq(src, begin + 1, L1.pos),
                          start_line, start_col),
            errs |-> <<>>]

\* Lexer._scan_number, the first digit already consumed
_scan_number(src, L, start_line, start_col) ==
  LET begin == L.pos - 1
      L1 == _scan_digits(src, L)
  IN  IF _peek(src, L1, 0) = "." /\ isdigit(_peek(src, L1, 1))
      THEN
        LET L2 == _advance(src, L1)
            L3 == _scan_digits(src, L2)
            hasExp == _peek(src, L3, 0) \in {"e", "E"}
            L4 == IF hasExp THEN _advance(src, L3) ELSE L3
            L5 == IF hasExp /\ _peek(src, L4, 0) \in {"+", "-"}
                  THEN _advance(src, L4) ELSE L4
            expDigits == ~_at_end(src, L5) /\ isdigit(_peek(src, L5, 0))
            L6 == IF hasExp /\ expDigits THEN _scan_digits(src, L5) ELSE L5
        IN  [L |-> L6,
             tok |-> Token("FLOAT_LIT", SubSeq(src, begin + 1, L6.pos),
                           start_line, start_col),
             errs |-> IF hasExp /\ ~expDigits
                      THEN <<error("Expected digits after exponent in float literal",
                                   <<>>, L5.line, L5.col)>>
                      ELSE <<>>]
      ELSE [L |-> L1,
            tok |-> Token("INT_LIT", SubSeq(src, begin + 1, L1.pos),
                          start_line, start_col),
            errs |-> <<>>]

RECURSIVE _scan_ident_chars(_, _)
\* the scanning loop of _scan_identifier_or_keyword
_scan_ident_chars(src, L) ==
  IF ~_at_end(src, L) /\ (isalnum(_peek(src, L, 0)) \/ _peek(src, L, 0) = "_")
  THEN _scan_ident_chars(src, _advance(src, L))
  ELSE L

\* an identifier whose lexeme starts at the cursor, the first character lost
_scan_identifier_from_pos(src, L, start_line, start_col) ==
  LET L1 == _scan_ident_chars(src, L)
      lexeme == SubSeq(src, L.pos + 1, L1.pos)
  IN  [L |-> L1,
       tok |-> Token(KEYWORDS_get(lexeme), lexeme, start_line, start_col),
       errs |-> <<>>]

\* Lexer._scan_identifier_or_keyword, the first character already consumed
_scan_identifier_or_keyword(src, L, start_line, start_col) ==
  LET begin == L.pos - 1
      L1 == _scan_ident_chars(src, L)
      lexeme == SubSeq(src, begin + 1, L1.pos)
  IN  [L |-> L1,
       tok |-> Token(KEYWORDS_get(lexeme), lexeme, start_line, start_col),
       errs |-> <<>>]

\* One iteration of the main loop of Lexer.tokenize (the lexer is not at the
\* end).  Yields the lexer state and the errors the iteration reports.
tokenize_iter(src, L) ==
  LET ch == _peek(src, L, 0)
      line == L.line
      col == L.col
      L1 == _advance(src, L)
      real == [L1 EXCEPT !.last_was_newline = FALSE]
      emit(r) == [L |-> [r.L EXCEPT !.tokens = Append(@, r.tok)], errs |-> r.errs]
  IN  IF ch \in {" ", "\t", "\r"}
      THEN [L |-> L1, errs |-> <<>>]
      ELSE IF ch = "#"
      THEN [L |-> _skip_comment(src, L), errs |-> <<>>]
      ELSE IF ch = "\n"
      THEN IF ~L.last_was_newline
           THEN [L |-> [L1 EXCEPT !.tokens = Append(@, Token("NEWLINE", <<"\\", "n">>, line, col)),
                                  !.last_was_newline = TRUE],
                 errs |-> <<>>]
           ELSE [L |-> L1, errs |-> <<>>]
      ELSE IF ch = "\""
      THEN emit(_scan_string(src, real, <<>>, line, col))
      ELSE IF isdigit(ch)
      THEN emit(_scan_number(src, real, line, col))
      ELSE IF isalpha(ch) \/ ch = "_"
      THEN emit(_scan_identifier_or_keyword(src, real, line, col))
      ELSE IF ch = "."
      THEN IF _peek(src, real, 0) = "."
           THEN emit([L |-> _advance(src, real),
                      tok |-> Token("DOTDOT", <<".", ".">>, line, col), errs |-> <<>>])
           ELSE emit([L |-> real, tok |-> Token("DOT", <<".">>, line, col), errs |-> <<>>])
      ELSE IF ch \in DOMAIN _SINGLE_CHAR
      THEN emit([L |-> real, tok |-> Token(_SINGLE_CHAR[ch], <<ch>>, line, col),
                 errs |-> <<>>])
      ELSE [L |-> real, errs |-> <<error("Unexpected character", <<ch>>, line, col)>>]

\* The lexer as constructed by Lexer.__init__ and the start of tokenize
LexerInit ==
  [pos |-> 0, line |-> 1, col |-> 1, tokens |-> <<>>, last_was_newline |-> TRUE]

\* tokenize_eof with the EOF token left out of an empty token list
tokenize_eof_unless_empty(L) ==
  IF L.tokens = <<>> THEN <<>> ELSE Append(L.tokens, Token("EOF", <<>>, L.line, L.col))

\* The end of tokenize: append EOF
tokenize_eof(L) == Append(L.tokens, Token("EOF", <<>>, L.line, L.col))

RECURSIVE tokenize_from(_, _, _)
tokenize_from(src, L, errs) ==
  IF _at_end(src, L)
  THEN [tokens |-> tokenize_eof(L), errs |-> errs]
  ELSE LET r == tokenize_iter(src, L)
       IN  tokenize_from(src, r.L, errs \o r.errs)

\* Lexer(source).tokenize(): the token list and the errors reported
tokenize(src) == tokenize_from(src, LexerInit, <<>>)

(***************************************************************************)
(* Python integers.  The evaluator computes on unbounded ints and          *)
(* divides through a float, so a value is a sign and a magnitude, the      *)
(* magnitude a sequence of bits, least significant first, with no high     *)
(* zero bit; zero is the empty magnitude and is never negative.            *)
(***************************************************************************)
\* v is computed first, then K continues with it
Then(v, K(_)) == IF v = v THEN K(v) ELSE v

\* the largest element of a non-empty set of integers
MaxOf(S) == CHOOSE i \in S : \A j \in S : j <= i

\* m without its high zero bits
MagNorm(m) ==
  LET ones == {i \in 1..Len(m) : m[i] = 1}
  IN  IF ones = {} THEN <<>> ELSE SubSeq(m, 1, MaxOf(ones))

\* -1, 0 or 1 as a < b, a = b, a > b: decided by the highest bit that differs
MagCmp(a, b) ==
  IF Len(a) > Len(b) THEN 1
  ELSE IF Len(a) < Len(b) THEN -1
  ELSE LET differ == {i \in 1..Len(a) : a[i] # b[i]}
       IN  IF differ = {} THEN 0
           ELSE IF a[MaxOf(differ)] > b[MaxOf(differ)] THEN 1 ELSE -1

MagBit(m, i) == IF i <= Len(m) THEN m[i] ELSE 0

\* a + b: the carry into bit i comes from a lower bit where both are 1,
\* through bits where one is 1
MagAdd(a, b) ==
  LET n == IF Len(a) > Len(b) THEN Len(a) ELSE Len(b)
      carry(i) ==
        IF \E j \in 1..(i - 1) :
             /\ MagBit(a, j) = 1 /\ MagBit(b, j) = 1
             /\ \A k \in (j + 1)..(i - 1) : MagBit(a, k) + MagBit(b, k) >= 1
        THEN 1 ELSE 0
  IN  MagNorm([i \in 1..(n + 1) |-> (MagBit(a, i) + MagBit(b, i) + carry(i)) % 2])

\* a - b for a >= b: the borrow into bit i comes from a lower bit where a
\* is 0 and b is 1, through bits where they are equal
MagSub(a, b) ==
  LET borrow(i) ==
        IF \E j \in 1..(i - 1) :
             /\ a[j] = 0 /\ MagBit(b, j) = 1
             /\ \A k \in (j + 1)..(i - 1) : a[k] = MagBit(b, k)
        THEN 1 ELSE 0
  IN  MagNorm([i \in 1..Len(a) |-> (a[i] + MagBit(b, i) + borrow(i)) % 2])

\* m * 2^k
MagShl(m, k) == IF m = <<>> THEN <<>> ELSE [i \in 1..k |-> 0] \o m

\* floor(m / 2^k)
MagShr(m, k) == IF k >= Len(m) THEN <<>> ELSE SubSeq(m, k + 1, Len(m))

\* m mod 2^k
MagLow(m, k) == MagNorm(SubSeq(m, 1, IF k < Len(m) THEN k ELSE Len(m)))

RECURSIVE MagMulOver(_, _, _, _, _)
\* acc + a * (the bits lo..hi of b, in place)
MagMulOver(a, b, lo, hi, acc) ==
  IF lo = hi
  THEN IF b[lo] = 1 THEN MagAdd(acc, MagShl(a, lo - 1)) ELSE acc
  ELSE Then(MagMulOver(a, b, lo, (lo + hi) \div 2, acc), LAMBDA low :
       MagMulOver(a, b, (lo + hi) \div 2 + 1, hi, low))

\* a * b, adding a shifted copy of the longer per bit of the shorter
MagMul(a, b) ==
  IF a = <<>> \/ b = <<>> THEN <<>>
  ELSE IF Len(a) >= Len(b) THEN MagMulOver(a, b, 1, Len(b), <<>>)
  ELSE MagMulOver(b, a, 1, Len(a), <<>>)

\* One step of long division: bring down bit i of a
MagDivModStep(a, b, i, s) ==
  LET r1 == MagNorm(<<a[i]>> \o s.r)
  IN  IF MagCmp(r1, b) >= 0
      THEN [q |-> <<1>> \o s.q, r |-> MagSub(r1, b)]
      ELSE [q |-> <<0>> \o s.q, r |-> r1]

RECURSIVE MagDivModOver(_, _, _, _, _)
\* long division over the bits hi down to lo of a, the high half first
MagDivModOver(a, b, hi, lo, s) ==
  IF hi = lo THEN MagDivModStep(a, b, hi, s)
  ELSE Then(MagDivModOver(a, b, hi, (hi + lo) \div 2 + 1, s), LAMBDA high :
       MagDivModOver(a, b, (hi + lo) \div 2, lo, high))

\* floor(a / b) and a mod b for b > 0
MagDivMod(a, b) ==
  IF a = <<>> THEN [q |-> <<>>, r |-> <<>>]
  ELSE LET s == MagDivModOver(a, b, Len(a), 1, [q |-> <<>>, r |-> <<>>])
       IN  [q |-> MagNorm(s.q), r |-> s.r]

RECURSIVE MagOfNat(_)
MagOfNat(n) == IF n = 0 THEN <<>> ELSE <<n % 2>> \o MagOfNat(n \div 2)

MagOne == <<1>>

PyInt(neg, mag) == [neg |-> neg /\ mag # <<>>, mag |-> mag]

\* the Python int of a small integer
IntOf(n) == IF n < 0 THEN PyInt(TRUE, MagOfNat(-n)) ELSE PyInt(FALSE, MagOfNat(n))

IntZero == PyInt(FALSE, <<>>)

\* -a
IntNeg(a) == PyInt(~a.neg, a.mag)

\* a + b
IntAdd(a, b) ==
  IF a.neg = b.neg THEN PyInt(a.neg, MagAdd(a.mag, b.mag))
  ELSE IF MagCmp(a.mag, b.mag) >= 0 THEN PyInt(a.neg, MagSub(a.mag, b.mag))
  ELSE PyInt(b.neg, MagSub(b.mag, a.mag))

\* a - b
IntSub(a, b) == IntAdd(a, IntNeg(b))

\* a * b
IntMul(a, b) == PyInt(a.neg # b.neg, MagMul(a.mag, b.mag))

\* Bits of a double's significand, and the largest binary exponent
DBL_MANT_DIG == 53

DBL_MAX_EXP == 1024

\* |a / b| as Python computes it for ints (the correctly rounded double,
\* ties to even) and then int() of it, for magnitudes a and b > 0.
TrueDivTrunc(a, b) ==
  LET qr == MagDivMod(a, b)
      q == qr.q
      r == qr.r
      n == Len(q)
  IN  IF n < DBL_MANT_DIG
      THEN \* DBL_MANT_DIG - n fraction bits: the double is q + 1 when the
           \* fraction r / b is within half a unit in the last place of 1
           IF MagCmp(MagShl(MagSub(b, r), DBL_MANT_DIG - n + 1), b) <= 0
           THEN MagAdd(q, MagOne) ELSE q
      ELSE IF n = DBL_MANT_DIG
      THEN LET twice == MagShl(r, 1)
               c == MagCmp(twice, b)
           IN  IF c > 0 \/ (c = 0 /\ q[1] = 1) THEN MagAdd(q, MagOne) ELSE q
      ELSE LET d == n - DBL_MANT_DIG
               hi == MagShr(q, d)
               lo == MagLow(q, d)
               half == MagShl(MagOne, d - 1)
               c == MagCmp(lo, half)
               up == c > 0 \/ (c = 0 /\ (r # <<>> \/ hi[1] = 1))
           IN  MagShl(IF up THEN MagAdd(hi, MagOne) ELSE hi, d)

\* int(left / right) for right # 0: the value, or the OverflowError of
\* a quotient too large for a float
int_truediv(left, right) ==
  LET m == TrueDivTrunc(left.mag, right.mag)
  IN  IF Len(m) > DBL_MAX_EXP
      THEN [ok |-> FALSE, exc |-> "OverflowError"]
      ELSE [ok |-> TRUE, value |-> PyInt(left.neg # right.neg, m)]

\* left % right for right # 0: Python's remainder takes the divisor's sign
py_mod(left, right) ==
  LET r == MagDivMod(left.mag, right.mag).r
  IN  IF r = <<>> THEN IntZero
      ELSE IF left.neg = right.neg THEN PyInt(right.neg, r)
      ELSE PyInt(right.neg, MagSub(right.mag, r))

(***************************************************************************)
(* Expression nodes.  A location is [line, col]; NoLocation stands for a   *)
(* location of None (lines and columns of real locations start at 1).      *)
(***************************************************************************)
NoLocation == [line |-> 0, col |-> 0]

SourceLocation(line, col) == [line |-> line, col |-> col]

None == [type |-> "None"]

IntLiteral(value, location) ==
  [type |-> "IntLiteral", value |-> value, location |-> location]

FloatLiteral(value, location) ==
  [type |-> "FloatLiteral", value |-> value, location |-> location]

Identifier(name, location) ==
  [type |-> "Identifier", name |-> name, location |-> location]

BinaryOp(op, left, right, location) ==
  [type |-> "BinaryOp", op |-> op, left |-> left, right |-> right,
   location |-> location]

UnaryOp(op, operand, location) ==
  [type |-> "UnaryOp", op |-> op, operand |-> operand, location |-> location]

ParenExpr(expr, location) ==
  [type |-> "ParenExpr", expr |-> expr, location |-> location]

StringLiteral(value, location) ==
  [type |-> "StringLiteral", value |-> value, location |-> location]

ArrayLiteral(elements, location) ==
  [type |-> "ArrayLiteral", elements |-> elements, location |-> location]

(***************************************************************************)
(* Constant expression evaluator.  The result is the returned int, or the  *)
(* exception raised.                                                       *)
(***************************************************************************)
Returned(value) == [ok |-> TRUE, value |-> value]

ConstEvalError(message, detail, location) ==
  [ok |-> FALSE, exc |-> "ConstEvalError", message |-> message,
   detail |-> detail, location |-> location]

OverflowError(location) ==
  [ok |-> FALSE, exc |-> "OverflowError",
   message |-> "integer division result too large for a float",
   detail |-> <<>>, location |-> location]

\* The `/` branch of evaluate_const_expr on evaluated operands
eval_div(left, right, location) ==
  IF right = IntZero
  THEN ConstEvalError("Division by zero in constant expression", <<>>, location)
  ELSE LET d == int_truediv(left, right)
       IN  IF d.ok THEN Returned(d.value) ELSE OverflowError(location)

\* eval_mod without the check of the divisor: Python's own ZeroDivisionError
eval_mod_unchecked(left, right, location) ==
  IF right = IntZero
  THEN [ok |-> FALSE, exc |-> "ZeroDivisionError",
        message |-> "integer modulo by zero", detail |-> <<>>, location |-> location]
  ELSE Returned(py_mod(left, right))

\* The `mod` branch of evaluate_const_expr on evaluated operands
eval_mod(left, right, location) ==
  IF right = IntZero
  THEN ConstEvalError("Division by zero in constant expression", <<>>, location)
  ELSE Returned(py_mod(left, right))

RECURSIVE evaluate_right_operand_first(_, _)
\* an evaluator that evaluates the right operand of a BinaryOp before the left
evaluate_right_operand_first(expr, env) ==
  IF expr.type = "IntLiteral" THEN Returned(expr.value)
  ELSE IF expr.type = "Identifier"
  THEN IF expr.name \notin DOMAIN env
       THEN ConstEvalError("Forward reference to undeclared constant", expr.name,
                           expr.location)
       ELSE Returned(env[expr.name])
  ELSE IF expr.type = "BinaryOp"
  THEN LET right == evaluate_right_operand_first(expr.right, env)
       IN  IF ~right.ok THEN right
           ELSE LET left == evaluate_right_operand_first(expr.left, env)
                IN  IF ~left.ok THEN left
                    ELSE IF expr.op = <<"+">> THEN Returned(IntAdd(left.value, right.value))
                    ELSE IF expr.op = <<"-">> THEN Returned(IntSub(left.value, right.value))
                    ELSE IF expr.op = <<"*">> THEN Returned(IntMul(left.value, right.value))
                    ELSE IF expr.op = <<"/">>
                    THEN eval_div(left.value, right.value, expr.location)
                    ELSE IF expr.op = <<"m", "o", "d">>
                    THEN eval_mod(left.value, right.value, expr.location)
                    ELSE ConstEvalError("Unknown operator", expr.op, expr.location)
  ELSE IF expr.type = "UnaryOp"
  THEN LET operand == evaluate_right_operand_first(expr.operand, env)
       IN  IF ~operand.ok THEN operand
           ELSE IF expr.op = <<"-">> THEN Returned(IntNeg(operand.value))
           ELSE ConstEvalError("Unknown unary operator", expr.op, expr.location)
  ELSE IF expr.type = "ParenExpr" THEN evaluate_right_operand_first(expr.expr, env)
  ELSE IF expr.type = "FloatLiteral"
  THEN ConstEvalError("Float literals not allowed in constant expressions", <<>>,
                      expr.location)
  ELSE ConstEvalError("Cannot evaluate expression type", <<expr.type>>, expr.location)

RECURSIVE evaluate_const_expr(_, _)
evaluate_const_expr(expr, env) ==
  IF expr.type = "IntLiteral" THEN Returned(expr.value)
  ELSE IF expr.type = "Identifier"
  THEN IF expr.name \notin DOMAIN env
       THEN ConstEvalError("Forward reference to undeclared constant", expr.name,
                           expr.location)
       ELSE Returned(env[expr.name])
  ELSE IF expr.type = "BinaryOp"
  THEN LET left == evaluate_const_expr(expr.left, env)
       IN  IF ~left.ok THEN left
           ELSE LET right == evaluate_const_expr(expr.right, env)
                IN  IF ~right.ok THEN right
                    ELSE IF expr.op = <<"+">> THEN Returned(IntAdd(left.value, right.value))
                    ELSE IF expr.op = <<"-">> THEN Returned(IntSub(left.value, right.value))
                    ELSE IF expr.op = <<"*">> THEN Returned(IntMul(left.value, right.value))
                    ELSE IF expr.op = <<"/">>
                    THEN eval_div(left.value, right.value, expr.location)
                    ELSE IF expr.op = <<"m", "o", "d">>
                    THEN eval_mod(left.value, right.value, expr.location)
                    ELSE ConstEvalError("Unknown operator", expr.op, expr.location)
  ELSE IF expr.type = "UnaryOp"
  THEN LET operand == evaluate_const_expr(expr.operand, env)
       IN  IF ~operand.ok THEN operand
           ELSE IF expr.op = <<"-">> THEN Returned(IntNeg(operand.value))
           ELSE ConstEvalError("Unknown unary operator", expr.op, expr.location)
  ELSE IF expr.type = "ParenExpr" THEN evaluate_const_expr(expr.expr, env)
  ELSE IF expr.type = "FloatLiteral"
  THEN ConstEvalError("Float literals not allowed in constant expressions", <<>>,
                      expr.location)
  ELSE ConstEvalError("Cannot evaluate expression type", <<expr.type>>, expr.location)

(***************************************************************************)
(* Parser.  A parser state is [pos, diag]: the cursor (the current token   *)
(* is toks[pos + 1]) and the records of the diagnostics collector.  A      *)
(* production yields [exc, P, node, err]: exc is "" when it returns node,  *)
(* or names the exception it raises, err holding the exception's message   *)
(* and location.                                                           *)
(***************************************************************************)
NoErr == [message |-> "", line |-> 0, col |-> 0]

Ok(P, node) == [exc |-> "", P |-> P, node |-> node, err |-> NoErr]

\* raise ParseError(message, tok.location)
ParseError(P, message, tok) ==
  [exc |-> "ParseError", P |-> P, node |-> None,
   err |-> [message |-> message, line |-> tok.line, col |-> tok.col]]

\* the ValueError int() and float() raise on a lexeme they cannot convert
ValueError(P, tok) ==
  [exc |-> "ValueError", P |-> P, node |-> None,
   err |-> [message |-> "invalid literal", line |-> tok.line, col |-> tok.col]]

\* self._diag.error(message, tok.location) on the parser's collector
P_error(P, message, detail, tok) ==
  [P EXCEPT !.diag = Append(@, error(message, detail, tok.line, tok.col))]

TokLoc(tok) == SourceLocation(tok.line, tok.col)

\* Parser._peek
P_peek(toks, P) == toks[P.pos + 1]

\* Parser._peek_ahead
_peek_ahead(toks, P, offset) ==
  LET idx == P.pos + offset
  IN  IF idx < Len(toks) THEN toks[idx + 1] ELSE toks[Len(toks)]

\* Parser._at_end
P_at_end(toks, P) == P_peek(toks, P).kind = "EOF"

\* a cursor that moves forward whatever the current token is
_advance_past_eof(toks, P) == [P EXCEPT !.pos = @ + 1]

\* Parser._advance: the state after consuming the current token
P_advance(toks, P) ==
  IF toks[P.pos + 1].kind # "EOF" THEN [P EXCEPT !.pos = @ + 1] ELSE P

\* Parser._check
_check(toks, P, kind) == P_peek(toks, P).kind = kind

\* Parser._match: whether one of kinds matches; the state is P_advance then
_match(toks, P, kinds) == P_peek(toks, P).kind \in kinds

\* an _expect that raises without reporting to the collector
_expect_unreported(toks, P, kind, message) ==
  LET tok == P_peek(toks, P)
  IN  IF tok.kind = kind
      THEN Ok(P_advance(toks, P), tok)
      ELSE ParseError(P, message, tok)

\* Parser._expect
_expect(toks, P, kind, message) ==
  LET tok == P_peek(toks, P)
  IN  IF tok.kind = kind
      THEN Ok(P_advance(toks, P), tok)
      ELSE ParseError(P_error(P, message, <<tok.kind>> \o tok.lexeme, tok),
                      message, tok)

RECURSIVE _skip_newlines(_, _)
\* Parser._skip_newlines
_skip_newlines(toks, P) ==
  IF _check(toks, P, "NEWLINE") THEN _skip_newlines(toks, P_advance(toks, P)) ELSE P

\* a skip of the current token only
_skip_one_token(toks, P) == P_advance(toks, P)

RECURSIVE _skip_to_newline(_, _)
\* Parser._skip_to_newline
_skip_to_newline(toks, P) ==
  IF ~P_at_end(toks, P) /\ ~_check(toks, P, "NEWLINE")
  THEN _skip_to_newline(toks, P_advance(toks, P))
  ELSE P

RECURSIVE peek_past_from(_, _)
peek_past_from(toks, i) ==
  IF i < Len(toks) /\ toks[i + 1].kind = "NEWLINE"
  THEN peek_past_from(toks, i + 1)
  ELSE IF i < Len(toks) THEN toks[i + 1].kind ELSE "EOF"

\* a lookahead that stops at the current token, newline or not
_peek_no_lookahead(toks, P) == P_peek(toks, P).kind

\* Parser._peek_past_newlines
_peek_past_newlines(toks, P) == peek_past_from(toks, P.pos)

RECURSIVE strip_quotes(_)
\* str.strip('"')
strip_quotes(s) ==
  IF Len(s) > 0 /\ s[1] = "\"" THEN strip_quotes(Tail(s))
  ELSE IF Len(s) > 0 /\ s[Len(s)] = "\"" THEN strip_quotes(SubSeq(s, 1, Len(s) - 1))
  ELSE s

DigitValue(c) ==
  CASE c = "0" -> 0 [] c = "1" -> 1 [] c = "2" -> 2 [] c = "3" -> 3 [] c = "4" -> 4
    [] c = "5" -> 5 [] c = "6" -> 6 [] c = "7" -> 7 [] c = "8" -> 8 [] c = "9" -> 9

RECURSIVE DecimalValue(_, _)
DecimalValue(s, acc) ==
  IF s = <<>> THEN acc
  ELSE DecimalValue(Tail(s), IntAdd(IntMul(acc, IntOf(10)), IntOf(DigitValue(s[1]))))

AllDecimal(s) == \A i \in 1..Len(s) : s[i] \in DecimalDigits

\* int(lexeme): the value, or ValueError when the text is not decimal digits
py_int(lexeme) ==
  IF Len(lexeme) > 0 /\ AllDecimal(lexeme)
  THEN [ok |-> TRUE, value |-> DecimalValue(lexeme, IntZero)]
  ELSE [ok |-> FALSE]

\* a Python float, kept as the text it was converted from
PyFloat(text) == [text |-> text]

\* float(lexeme) accepts digits '.' digits with an optional exponent
\* [eE][+-]?digits
py_float(lexeme) ==
  LET n == Len(lexeme)
      es == {i \in 1..n : lexeme[i] \in {"e", "E"}}
      mantEnd == IF es = {} THEN n ELSE (CHOOSE i \in es : \A j \in es : i <= j) - 1
      mant == SubSeq(lexeme, 1, mantEnd)
      dots == {i \in 1..mantEnd : mant[i] = "."}
      mantOk == /\ Cardinality(dots) <= 1
                /\ \A i \in 1..mantEnd : i \in dots \/ mant[i] \in DecimalDigits
                /\ \E i \in 1..mantEnd : mant[i] \in DecimalDigits
      exp == SubSeq(lexeme, mantEnd + 2, n)
      expDigits == IF Len(exp) > 0 /\ exp[1] \in {"+", "-"} THEN Tail(exp) ELSE exp
      expOk == es = {} \/ (Len(expDigits) > 0 /\ AllDecimal(expDigits))
  IN  IF mantOk /\ expOk THEN [ok |-> TRUE, value |-> PyFloat(lexeme)] ELSE [ok |-> FALSE]

(***************************************************************************)
(* Statement and attribute nodes.                                          *)
(***************************************************************************)
PerTensorQuantNode(scale, zero_point, location) ==
  [type |-> "PerTensorQuantNode", scale |-> scale, zero_point |-> zero_point,
   location |-> location]

PerChannelQuantNode(axis, scales, zero_points, location) ==
  [type |-> "PerChannelQuantNode", axis |-> axis, scales |-> scales,
   zero_points |-> zero_points, location |-> location]

PerGroupQuantNode(axis, group_size, scales, zero_points, location) ==
  [type |-> "PerGroupQuantNode", axis |-> axis, group_size |-> group_size,
   scales |-> scales, zero_points |-> zero_points, location |-> location]

TypeAttrsNode(elem, shape, layout, strides, quant, location) ==
  [type |-> "TypeAttrsNode", elem |-> elem, shape |-> shape, layout |-> layout,
   strides |-> strides, quant |-> quant, location |-> location]

DecoratorNode(name, args, location) ==
  [type |-> "DecoratorNode", name |-> name, args |-> args, location |-> location]

ConstDeclNode(name, value, location) ==
  [type |-> "ConstDeclNode", name |-> name, value |-> value, location |-> location]

BufferDeclNode(name, mem_level, size, align, l1_index, decorators, location) ==
  [type |-> "BufferDeclNode", name |-> name, mem_level |-> mem_level,
   size |-> size, align |-> align, l1_index |-> l1_index,
   decorators |-> decorators, location |-> location]

RegionDeclNode(name, buffer_name, offset, extent, type_attrs, decorators, location) ==
  [type |-> "RegionDeclNode", name |-> name, buffer_name |-> buffer_name,
   offset |-> offset, extent |-> extent, type_attrs |-> type_attrs,
   decorators |-> decorators, location |-> location]

LetDeclNode(name, value, location) ==
  [type |-> "LetDeclNode", name |-> name, value |-> value, location |-> location]

ProgramNode(device_ref, name, statements, location) ==
  [type |-> "ProgramNode", device_ref |-> device_ref, name |-> name,
   statements |-> statements, location |-> location]

_ELEM_TYPE_TOKENS ==
  {"I4", "I8", "I16", "I32", "U8", "U16", "U32", "F16", "BF16", "TF32", "F32",
   "F64", "BOOL_TYPE"}

\* the unit names of the @resource(UNIT[i]) form in _parse_deco_args
ResourceUnits ==
  {<<"N", "M", "U">>, <<"C", "S", "T", "L">>, <<"D", "M", "A">>, <<"V", "P", "U">>,
   <<"S", "E", "Q">>, <<"s", "D", "M", "A">>, <<"W", "D", "M">>}

Some(v) == [some |-> TRUE, v |-> v]

Nothing == [some |-> FALSE, v |-> <<>>]

(***************************************************************************)
(* Productions.  Bind(r, K) is sequencing: the exception of r propagates,  *)
(* otherwise K continues from r.  A production calls another through       *)
(* Parse, which dispatches on the production's name.                       *)
(***************************************************************************)
Bind(r, K(_)) == IF r.exc # "" THEN r ELSE K(r)

RECURSIVE Parse(_, _, _)

\* Parser._parse_primary
_parse_primary(toks, P) ==
  LET tok == P_peek(toks, P)
  IN  IF tok.kind = "INT_LIT"
      THEN IF py_int(tok.lexeme).ok
           THEN Ok(P_advance(toks, P), IntLiteral(py_int(tok.lexeme).value, TokLoc(tok)))
           ELSE ValueError(P_advance(toks, P), tok)
      ELSE IF tok.kind = "FLOAT_LIT"
      THEN IF py_float(tok.lexeme).ok
           THEN Ok(P_advance(toks, P), FloatLiteral(py_float(tok.lexeme).value, TokLoc(tok)))
           ELSE ValueError(P_advance(toks, P), tok)
      ELSE IF tok.kind = "IDENT"
      THEN Ok(P_advance(toks, P), Identifier(tok.lexeme, TokLoc(tok)))
      ELSE IF tok.kind = "LPAREN"
      THEN Bind(Parse("parse_expression", toks, P_advance(toks, P)), LAMBDA e :
           Bind(_expect(toks, e.P, "RPAREN", "Expected ')' after expression"), LAMBDA c :
           Ok(c.P, ParenExpr(e.node, TokLoc(tok)))))
      ELSE ParseError(P_error(P, "Expected expression, got", <<tok.kind>> \o tok.lexeme, tok),
                      "Expected expression", tok)

\* a prefix minus whose operand is a whole product
_parse_unary_of_product(toks, P) ==
  IF _match(toks, P, {"MINUS"})
  THEN Bind(Parse("_parse_multiplicative", toks, P_advance(toks, P)), LAMBDA operand :
       Ok(operand.P, UnaryOp(<<"-">>, operand.node, TokLoc(P_peek(toks, P)))))
  ELSE Parse("_parse_primary", toks, P)

\* Parser._parse_unary
_parse_unary(toks, P) ==
  IF _match(toks, P, {"MINUS"})
  THEN Bind(Parse("_parse_unary", toks, P_advance(toks, P)), LAMBDA operand :
       Ok(operand.P, UnaryOp(<<"-">>, operand.node, TokLoc(P_peek(toks, P)))))
  ELSE Parse("_parse_primary", toks, P)

RECURSIVE multiplicative_loop(_, _, _)
\* the while loop of _parse_multiplicative
multiplicative_loop(toks, P, left) ==
  IF _match(toks, P, {"STAR", "SLASH", "MOD"})
  THEN Bind(Parse("_parse_unary", toks, P_advance(toks, P)), LAMBDA right :
       multiplicative_loop(toks, right.P,
                           BinaryOp(P_peek(toks, P).lexeme, left, right.node,
                                    TokLoc(P_peek(toks, P)))))
  ELSE Ok(P, left)

\* Parser._parse_multiplicative
_parse_multiplicative(toks, P) ==
  Bind(Parse("_parse_unary", toks, P), LAMBDA left :
  multiplicative_loop(toks, left.P, left.node))

RECURSIVE additive_loop(_, _, _)
\* the while loop of _parse_additive
additive_loop(toks, P, left) ==
  IF _match(toks, P, {"PLUS", "MINUS"})
  THEN Bind(Parse("_parse_multiplicative", toks, P_advance(toks, P)), LAMBDA right :
       additive_loop(toks, right.P,
                     BinaryOp(P_peek(toks, P).lexeme, left, right.node,
                              TokLoc(P_peek(toks, P)))))
  ELSE Ok(P, left)

\* Parser._parse_additive
_parse_additive(toks, P) ==
  Bind(Parse("_parse_multiplicative", toks, P), LAMBDA left :
  additive_loop(toks, left.P, left.node))

\* Parser.parse_expression
parse_expression(toks, P) == Parse("_parse_additive", toks, P)

RECURSIVE value_list_loop(_, _, _, _)
\* while self._match(COMMA): ... of the value lists, closed by the kind close
value_list_loop(toks, P, values, close) ==
  IF _match(toks, P, {"COMMA"})
  THEN IF _check(toks, P_advance(toks, P), close)
       THEN Ok(P_advance(toks, P), values)
       ELSE Bind(Parse("_parse_value", toks, P_advance(toks, P)), LAMBDA v :
            value_list_loop(toks, v.P, Append(values, v.node), close))
  ELSE Ok(P, values)

\* the values of `value, value, ...` up to the closing token, not consumed
value_list(toks, P, close) ==
  IF _check(toks, P, close) THEN Ok(P, <<>>)
  ELSE Bind(Parse("_parse_value", toks, P), LAMBDA v :
       value_list_loop(toks, v.P, <<v.node>>, close))

\* Parser._parse_array_literal
_parse_array_literal(toks, P) ==
  Bind(_expect(toks, P, "LBRACKET", "Expected '['"), LAMBDA o :
  Bind(value_list(toks, o.P, "RBRACKET"), LAMBDA vs :
  Bind(_expect(toks, vs.P, "RBRACKET", "Expected ']'"), LAMBDA c :
  Ok(c.P, ArrayLiteral(vs.node, TokLoc(o.node))))))

\* Parser._parse_value
_parse_value(toks, P) ==
  LET tok == P_peek(toks, P)
  IN  IF tok.kind = "STRING_LIT"
      THEN Ok(P_advance(toks, P), StringLiteral(strip_quotes(tok.lexeme), TokLoc(tok)))
      ELSE IF tok.kind = "LBRACKET" THEN Parse("_parse_array_literal", toks, P)
      ELSE Parse("parse_expression", toks, P)

\* Parser._parse_value_list
_parse_value_list(toks, P) ==
  Bind(_expect(toks, P, "LBRACKET", "Expected '['"), LAMBDA o :
  Bind(value_list(toks, o.P, "RBRACKET"), LAMBDA vs :
  Bind(_expect(toks, vs.P, "RBRACKET", "Expected ']'"), LAMBDA c :
  Ok(c.P, vs.node))))

RECURSIVE expr_list_loop(_, _, _)
\* while self._match(COMMA): ... of _parse_expr_list
expr_list_loop(toks, P, exprs) ==
  IF _match(toks, P, {"COMMA"})
  THEN IF _check(toks, P_advance(toks, P), "RBRACKET")
       THEN Ok(P_advance(toks, P), exprs)
       ELSE Bind(Parse("parse_expression", toks, P_advance(toks, P)), LAMBDA e :
            expr_list_loop(toks, e.P, Append(exprs, e.node)))
  ELSE Ok(P, exprs)

\* Parser._parse_expr_list
_parse_expr_list(toks, P) ==
  Bind(_expect(toks, P, "LBRACKET", "Expected '['"), LAMBDA o :
  Bind(IF _check(toks, o.P, "RBRACKET") THEN Ok(o.P, <<>>)
       ELSE Bind(Parse("parse_expression", toks, o.P), LAMBDA e :
            expr_list_loop(toks, e.P, <<e.node>>)), LAMBDA es :
  Bind(_expect(toks, es.P, "RBRACKET", "Expected ']'"), LAMBDA c :
  Ok(c.P, es.node))))

(***************************************************************************)
(* Decorators.                                                             *)
(***************************************************************************)
\* Parser._parse_deco_args
_parse_deco_args(toks, P) ==
  LET tok == P_peek(toks, P)
  IN  IF tok.kind = "IDENT" /\ tok.lexeme \in ResourceUnits
      THEN IF _check(toks, P_advance(toks, P), "LBRACKET")
           THEN Bind(Parse("parse_expression", toks, P_advance(toks, P_advance(toks, P))),
                     LAMBDA idx :
                Bind(_expect(toks, idx.P, "RBRACKET", "Expected ']' after resource index"),
                     LAMBDA c :
                Ok(c.P, <<Identifier(tok.lexeme, TokLoc(tok)), idx.node>>)))
           ELSE Ok(P_advance(toks, P), <<Identifier(tok.lexeme, TokLoc(tok))>>)
      ELSE value_list(toks, P, "RPAREN")

\* Parser._parse_decorator; args is Nothing for a bare @name
_parse_decorator(toks, P) ==
  Bind(_expect(toks, P, "AT", "Expected '@'"), LAMBDA at :
  Bind(_expect(toks, at.P, "IDENT", "Expected decorator name after '@'"), LAMBDA name :
  IF _match(toks, name.P, {"LPAREN"})
  THEN Bind(_parse_deco_args(toks, P_advance(toks, name.P)), LAMBDA args :
       Bind(_expect(toks, args.P, "RPAREN", "Expected ')' after decorator args"), LAMBDA c :
       Ok(c.P, DecoratorNode(name.node.lexeme, Some(args.node), TokLoc(at.node)))))
  ELSE Ok(name.P, DecoratorNode(name.node.lexeme, Nothing, TokLoc(at.node)))))

RECURSIVE decorators_loop(_, _, _)
\* the while loop of _parse_decorators
decorators_loop(toks, P, decos) ==
  IF _peek_past_newlines(toks, P) = "AT"
  THEN Bind(Parse("_parse_decorator", toks, _skip_newlines(toks, P)), LAMBDA d :
       decorators_loop(toks, d.P, Append(decos, d.node)))
  ELSE Ok(P, decos)

\* Parser._parse_decorators
_parse_decorators(toks, P) == decorators_loop(toks, P, <<>>)

(***************************************************************************)
(* Quantization descriptors.                                               *)
(***************************************************************************)
\* Parser._expect_ident
_expect_ident(toks, P, name) ==
  LET tok == P_peek(toks, P)
  IN  IF tok.kind = "IDENT" /\ tok.lexeme = name
      THEN Ok(P_advance(toks, P), tok)
      ELSE ParseError(P_error(P, "Expected name", (name \o <<tok.kind>>) \o tok.lexeme, tok),
                      "Expected name", tok)

\* `NAME =` and then the production prod: one field of a descriptor
QuantField(toks, P, name, message, prod) ==
  Bind(_expect_ident(toks, P, name), LAMBDA n :
  Bind(_expect(toks, n.P, "EQUALS", message), LAMBDA e :
  Parse(prod, toks, e.P)))

\* self._expect(TokenKind.COMMA, "Expected ','")
ExpectComma(toks, P) == _expect(toks, P, "COMMA", "Expected ','")

\* Parser._parse_per_tensor_quant
_parse_per_tensor_quant(toks, P, loc) ==
  Bind(QuantField(toks, P, <<"s", "c", "a", "l", "e">>,
                  "Expected '=' after 'scale'", "_parse_value"), LAMBDA scale :
  Bind(ExpectComma(toks, scale.P), LAMBDA c :
  Bind(QuantField(toks, c.P, <<"z", "e", "r", "o", "_", "p", "o", "i", "n", "t">>,
                  "Expected '=' after 'zero_point'", "_parse_value"), LAMBDA zp :
  Ok(zp.P, PerTensorQuantNode(scale.node, zp.node, loc)))))

\* `, scales=[...], zero_points=[...]`, the tail shared by per_channel and
\* per_group; node is <<scales, zero_points>>
ScalesAndZeroPoints(toks, P) ==
  Bind(ExpectComma(toks, P), LAMBDA c1 :
  Bind(QuantField(toks, c1.P, <<"s", "c", "a", "l", "e", "s">>,
                  "Expected '=' after 'scales'", "_parse_value_list"), LAMBDA scales :
  Bind(ExpectComma(toks, scales.P), LAMBDA c2 :
  Bind(QuantField(toks, c2.P, <<"z", "e", "r", "o", "_", "p", "o", "i", "n", "t", "s">>,
                  "Expected '=' after 'zero_points'", "_parse_value_list"), LAMBDA zps :
  Ok(zps.P, <<scales.node, zps.node>>)))))

\* Parser._parse_per_channel_quant
_parse_per_channel_quant(toks, P, loc) ==
  Bind(QuantField(toks, P, <<"a", "x", "i", "s">>,
                  "Expected '=' after 'axis'", "parse_expression"), LAMBDA axis :
  Bind(ScalesAndZeroPoints(toks, axis.P), LAMBDA t :
  Ok(t.P, PerChannelQuantNode(axis.node, t.node[1], t.node[2], loc))))

\* Parser._parse_per_group_quant
_parse_per_group_quant(toks, P, loc) ==
  Bind(QuantField(toks, P, <<"a", "x", "i", "s">>,
                  "Expected '=' after 'axis'", "parse_expression"), LAMBDA axis :
  Bind(ExpectComma(toks, axis.P), LAMBDA c :
  Bind(QuantField(toks, c.P, <<"g", "r", "o", "u", "p", "_", "s", "i", "z", "e">>,
                  "Expected '=' after 'group_size'", "parse_expression"), LAMBDA gs :
  Bind(ScalesAndZeroPoints(toks, gs.P), LAMBDA t :
  Ok(t.P, PerGroupQuantNode(axis.node, gs.node, t.node[1], t.node[2], loc))))))

\* Parser._parse_quant_desc
_parse_quant_desc(toks, P) ==
  LET tok == P_peek(toks, P)
      kind == tok.lexeme
  IN  IF tok.kind # "IDENT"
      THEN ParseError(P_error(P, "Expected quant descriptor kind, got", <<tok.kind>>, tok),
                      "Expected quant descriptor kind", tok)
      ELSE
        Bind(_expect(toks, P_advance(toks, P), "LPAREN", "Expected '(' after kind"),
             LAMBDA o :
        Bind(IF kind = <<"p", "e", "r", "_", "t", "e", "n", "s", "o", "r">>
             THEN _parse_per_tensor_quant(toks, o.P, TokLoc(tok))
             ELSE IF kind = <<"p", "e", "r", "_", "c", "h", "a", "n", "n", "e", "l">>
             THEN _parse_per_channel_quant(toks, o.P, TokLoc(tok))
             ELSE IF kind = <<"p", "e", "r", "_", "g", "r", "o", "u", "p">>
             THEN _parse_per_group_quant(toks, o.P, TokLoc(tok))
             ELSE ParseError(P_error(o.P, "Unknown quant descriptor", kind, tok),
                             "Unknown quant descriptor", tok),
             LAMBDA result :
        Bind(_expect(toks, result.P, "RPAREN", "Expected ')' after descriptor"),
             LAMBDA c :
        Ok(c.P, result.node))))

(***************************************************************************)
(* Type attributes.                                                        *)
(***************************************************************************)
\* Parser._parse_elem_type
_parse_elem_type(toks, P) ==
  LET tok == P_peek(toks, P)
  IN  IF tok.kind \in _ELEM_TYPE_TOKENS
      THEN Ok(P_advance(toks, P), tok.lexeme)
      ELSE ParseError(P_error(P, "Expected element type, got", <<tok.kind>> \o tok.lexeme, tok),
                      "Expected element type", tok)

\* The optional `, layout=IDENT` or `, strides=[...]` of _parse_type_attrs;
\* node is <<layout, strides>>
LayoutOrStrides(toks, P) ==
  IF _match(toks, P, {"COMMA"})
  THEN IF _check(toks, P_advance(toks, P), "LAYOUT")
       THEN Bind(_expect(toks, P_advance(toks, P_advance(toks, P)), "EQUALS",
                         "Expected '=' after 'layout'"), LAMBDA e :
            Bind(_expect(toks, e.P, "IDENT", "Expected layout name"), LAMBDA l :
            Ok(l.P, <<Some(l.node.lexeme), Nothing>>)))
       ELSE IF _check(toks, P_advance(toks, P), "STRIDES")
       THEN Bind(_expect(toks, P_advance(toks, P_advance(toks, P)), "EQUALS",
                         "Expected '=' after 'strides'"), LAMBDA e :
            Bind(Parse("_parse_expr_list", toks, e.P), LAMBDA s :
            Ok(s.P, <<Nothing, Some(s.node)>>)))
       ELSE Ok(P_advance(toks, P), <<Nothing, Nothing>>)
  ELSE Ok(P, <<Nothing, Nothing>>)

\* The optional `, quant=<descriptor>` of _parse_type_attrs
OptionalQuant(toks, P) ==
  IF _match(toks, P, {"COMMA"})
  THEN IF _check(toks, P_advance(toks, P), "QUANT")
       THEN Bind(_expect(toks, P_advance(toks, P_advance(toks, P)), "EQUALS",
                         "Expected '=' after 'quant'"), LAMBDA e :
            Parse("_parse_quant_desc", toks, e.P))
       ELSE Ok(P_advance(toks, P), None)
  ELSE Ok(P, None)

\* Parser._parse_type_attrs
_parse_type_attrs(toks, P) ==
  Bind(_expect(toks, P, "ELEM", "Expected 'elem'"), LAMBDA k :
  Bind(_expect(toks, k.P, "EQUALS", "Expected '=' after 'elem'"), LAMBDA e :
  Bind(_parse_elem_type(toks, e.P), LAMBDA elem :
  Bind(_expect(toks, elem.P, "COMMA", "Expected ',' after elem type"), LAMBDA c :
  Bind(_expect(toks, c.P, "SHAPE", "Expected 'shape'"), LAMBDA s :
  Bind(_expect(toks, s.P, "EQUALS", "Expected '=' after 'shape'"), LAMBDA se :
  Bind(Parse("_parse_expr_list", toks, se.P), LAMBDA shape :
  Bind(LayoutOrStrides(toks, shape.P), LAMBDA ls :
  Bind(OptionalQuant(toks, ls.P), LAMBDA quant :
  Ok(quant.P, TypeAttrsNode(elem.node, shape.node, ls.node[1], ls.node[2], quant.node,
                            TokLoc(P_peek(toks, P)))))))))))))

\* Parser._try_parse_type_attrs
_try_parse_type_attrs(toks, P) ==
  IF _peek_past_newlines(toks, P) # "ELEM" THEN Ok(P, None)
  ELSE _parse_type_attrs(toks, _skip_newlines(toks, P))

(***************************************************************************)
(* Declarations.                                                           *)
(***************************************************************************)
\* Parser.parse_const_decl
parse_const_decl(toks, P) ==
  Bind(_expect(toks, P, "CONST", "Expected 'const'"), LAMBDA k :
  Bind(_expect(toks, k.P, "IDENT", "Expected identifier after 'const'"), LAMBDA name :
  Bind(_expect(toks, name.P, "EQUALS", "Expected '=' after const name"), LAMBDA e :
  Bind(Parse("parse_expression", toks, e.P), LAMBDA value :
  Ok(value.P, ConstDeclNode(name.node.lexeme, value.node, TokLoc(k.node)))))))

\* Parser._parse_mem_level; node is <<mem_level, l1_index>>
_parse_mem_level(toks, P) ==
  LET tok == P_peek(toks, P)
  IN  IF tok.kind = "DDR" THEN Ok(P_advance(toks, P), <<<<"D", "D", "R">>, None>>)
      ELSE IF tok.kind = "L2" THEN Ok(P_advance(toks, P), <<<<"L", "2">>, None>>)
      ELSE IF tok.kind = "L1"
      THEN IF _check(toks, P_advance(toks, P), "LBRACKET")
           THEN Bind(Parse("parse_expression", toks, P_advance(toks, P_advance(toks, P))),
                     LAMBDA idx :
                Bind(_expect(toks, idx.P, "RBRACKET", "Expected ']' after L1 index"),
                     LAMBDA c :
                Ok(c.P, <<<<"L", "1">>, idx.node>>)))
           ELSE Ok(P_advance(toks, P), <<<<"L", "1">>, None>>)
      ELSE ParseError(P_error(P, "Expected memory level (DDR, L2, L1), got", <<tok.kind>>, tok),
                      "Expected memory level", tok)

RECURSIVE buffer_props_loop(_, _, _, _)
\* the while loop of _parse_buffer_props
buffer_props_loop(toks, P, size, align) ==
  IF ~_check(toks, P, "RPAREN") /\ ~P_at_end(toks, P)
        /\ (_check(toks, P, "SIZE") \/ _check(toks, P, "ALIGN"))
  THEN Bind(_expect(toks, P_advance(toks, P), "EQUALS",
                    IF _check(toks, P, "SIZE") THEN "Expected '=' after 'size'"
                    ELSE "Expected '=' after 'align'"), LAMBDA e :
       Bind(Parse("parse_expression", toks, e.P), LAMBDA v :
       buffer_props_loop(toks,
                         IF _match(toks, v.P, {"COMMA"}) THEN P_advance(toks, v.P) ELSE v.P,
                         IF _check(toks, P, "SIZE") THEN v.node ELSE size,
                         IF _check(toks, P, "SIZE") THEN align ELSE v.node)))
  ELSE Ok(P, <<size, align>>)

\* Parser._parse_buffer_props; node is <<size, align>>
_parse_buffer_props(toks, P) == buffer_props_loop(toks, P, None, None)

\* Parser.parse_buffer_decl
parse_buffer_decl(toks, P) ==
  Bind(_expect(toks, P, "BUFFER", "Expected 'buffer'"), LAMBDA k :
  Bind(_expect(toks, k.P, "IDENT", "Expected buffer name"), LAMBDA name :
  Bind(_expect(toks, name.P, "COLON", "Expected ':' after buffer name"), LAMBDA c :
  Bind(_parse_mem_level(toks, c.P), LAMBDA lvl :
  Bind(_expect(toks, lvl.P, "LPAREN", "Expected '(' after memory level"), LAMBDA o :
  Bind(_parse_buffer_props(toks, o.P), LAMBDA props :
  Bind(_expect(toks, props.P, "RPAREN", "Expected ')' after buffer properties"), LAMBDA cl :
  Bind(Parse("_parse_decorators", toks, cl.P), LAMBDA decos :
  Ok(decos.P, BufferDeclNode(name.node.lexeme, lvl.node[1], props.node[1], props.node[2],
                             lvl.node[2], decos.node, TokLoc(k.node)))))))))))

\* Parser._parse_region_body
_parse_region_body(toks, P, name, loc) ==
  Bind(_expect(toks, P, "REGION", "Expected 'region'"), LAMBDA k :
  Bind(_expect(toks, k.P, "LPAREN", "Expected '(' after 'region'"), LAMBDA o :
  Bind(_expect(toks, o.P, "IDENT", "Expected buffer name in region"), LAMBDA buf :
  Bind(_expect(toks, buf.P, "COMMA", "Expected ',' after buffer name"), LAMBDA c1 :
  Bind(Parse("parse_expression", toks, c1.P), LAMBDA offset :
  Bind(_expect(toks, offset.P, "COMMA", "Expected ',' after offset"), LAMBDA c2 :
  Bind(Parse("parse_expression", toks, c2.P), LAMBDA extent :
  Bind(_expect(toks, extent.P, "RPAREN", "Expected ')' after region extent"), LAMBDA cl :
  Bind(_try_parse_type_attrs(toks, cl.P), LAMBDA attrs :
  Bind(Parse("_parse_decorators", toks, attrs.P), LAMBDA decos :
  Ok(decos.P, RegionDeclNode(name, buf.node.lexeme, offset.node, extent.node, attrs.node,
                             decos.node, loc))))))))))))

\* Parser.parse_let_decl
parse_let_decl(toks, P) ==
  Bind(_expect(toks, P, "LET", "Expected 'let'"), LAMBDA k :
  Bind(_expect(toks, k.P, "IDENT", "Expected identifier after 'let'"), LAMBDA name :
  Bind(_expect(toks, name.P, "EQUALS", "Expected '=' after let name"), LAMBDA e :
  IF _check(toks, e.P, "REGION")
  THEN _parse_region_body(toks, e.P, name.node.lexeme, TokLoc(k.node))
  ELSE Bind(Parse("_parse_value", toks, e.P), LAMBDA value :
       Ok(value.P, LetDeclNode(name.node.lexeme, value.node, TokLoc(k.node)))))))

\* A call of the production named prod
Parse(prod, toks, P) ==
  CASE prod = "_parse_primary" -> _parse_primary(toks, P)
    [] prod = "_parse_unary" -> _parse_unary(toks, P)
    [] prod = "_parse_multiplicative" -> _parse_multiplicative(toks, P)
    [] prod = "_parse_additive" -> _parse_additive(toks, P)
    [] prod = "parse_expression" -> parse_expression(toks, P)
    [] prod = "_parse_value" -> _parse_value(toks, P)
    [] prod = "_parse_array_literal" -> _parse_array_literal(toks, P)
    [] prod = "_parse_value_list" -> _parse_value_list(toks, P)
    [] prod = "_parse_expr_list" -> _parse_expr_list(toks, P)
    [] prod = "_parse_decorator" -> _parse_decorator(toks, P)
    [] prod = "_parse_decorators" -> _parse_decorators(toks, P)
    [] prod = "_parse_quant_desc" -> _parse_quant_desc(toks, P)
    [] prod = "parse_const_decl" -> parse_const_decl(toks, P)
    [] prod = "parse_buffer_decl" -> parse_buffer_decl(toks, P)
    [] prod = "parse_let_decl" -> parse_let_decl(toks, P)

\* Parser._parse_device_header; node wraps the optional device reference
_parse_device_header(toks, P) ==
  IF ~_check(toks, P, "DEVICE") THEN Ok(P, Nothing)
  ELSE Bind(_expect(toks, P_advance(toks, P), "STRING_LIT",
                    "Expected string after 'device'"), LAMBDA tok :
       Ok(tok.P, Some(strip_quotes(tok.node.lexeme))))

\* Parser._parse_program_header; node wraps the optional program name
_parse_program_header(toks, P) ==
  IF ~_check(toks, P, "PROGRAM") THEN Ok(P, Nothing)
  ELSE Bind(_expect(toks, P_advance(toks, P), "IDENT",
                    "Expected identifier after 'program'"), LAMBDA name :
       Bind(_expect(toks, name.P, "COLON", "Expected ':' after program name"), LAMBDA c :
       Ok(c.P, Some(name.node.lexeme))))

(***************************************************************************)
(* Inputs.  A source text is either a few lines, each one of a fixed set   *)
(* of statement lines, joined by line breaks, or any text over a small     *)
(* alphabet.                                                               *)
(***************************************************************************)
MaxLines == 2

MaxLoopLines == 4

MaxChars == 4

\* Well-formed and malformed headers, declarations, loop markers, an
\* unknown statement and the empty line
StatementLines ==
  {
    <<"c", "o", "n", "s", "t", " ", "A", " ", "=", " ", "1">>,
    <<"c", "o", "n", "s", "t", " ", "B", " ", "=", " ", "\"", "x">>,
    <<"c", "o", "n", "s", "t", " ", "C", " ", "=", " ", "1", " ", "+">>,
    <<"b", "u", "f", "f", "e", "r", " ", "G", " ", ":", " ", "L", "2", " ", "(", "s", "i", "z", "e", "=", "5", ")">>,
    <<"b", "u", "f", "f", "e", "r", " ", "B", "A", "D", " ", "D", "D", "R">>,
    <<"l", "e", "t", " ", "x", " ", "=", " ", "2">>,
    <<"l", "e", "t", " ", "=", " ", "3">>,
    <<"l", "o", "o", "p">>,
    <<"e", "n", "d", "l", "o", "o", "p">>,
    <<"d", "e", "v", "i", "c", "e">>,
    <<"d", "e", "v", "i", "c", "e", " ", "\"", "d", "\"">>,
    <<"p", "r", "o", "g", "r", "a", "m", " ", "P", ":">>,
    <<"p", "r", "o", "g", "r", "a", "m", " ", "7">>,
    <<"s", "t", "o", "r", "e", " ", "x">>,
    <<>>
  }

\* Loop markers and declarations, for deeper nestings
LoopLines ==
  {
    <<"l", "o", "o", "p">>,
    <<"e", "n", "d", "l", "o", "o", "p">>,
    <<"c", "o", "n", "s", "t", " ", "A", " ", "=", " ", "1">>,
    <<"l", "e", "t", " ", "x", " ", "=", " ", "2">>
  }

Alphabet == {"1", ".", "e", "\n", "\"", "#", "$", " "}

RECURSIVE JoinLines(_)
\* "\n".join(lines)
JoinLines(lines) ==
  IF Len(lines) = 0 THEN <<>>
  ELSE IF Len(lines) = 1 THEN lines[1]
  ELSE (lines[1] \o <<"\n">>) \o JoinLines(Tail(lines))

SeqsUpTo(S, n) == UNION {[1..k -> S] : k \in 0..n}

Sources ==
  {JoinLines(ls) : ls \in SeqsUpTo(StatementLines, MaxLines)}
    \cup {JoinLines(ls) : ls \in SeqsUpTo(LoopLines, MaxLoopLines)}
    \cup SeqsUpTo(Alphabet, MaxChars)

(***************************************************************************)
(* The state: one call of parse(source, filename).                         *)
(*   pc        where the call is: "tokenize", "parse_program" (the         *)
(*             headers), "_parse_body" (the statement loop) or "done"      *)
(*   lexer     the Lexer object and the token list tokenize is building    *)
(*   diag      the records of the DiagnosticCollector, in order            *)
(*   parser    the Parser object and the locals of parse_program and       *)
(*             _parse_body                                                 *)
(*   outcome   what the call did: not finished, returned the program, or   *)
(*             raised an exception                                         *)
(*   abandoned the locations of the statements given up by recovery        *)
(*   evaluation one call of evaluate_const_expr: its arguments and result  *)
(*   runner    the locals of InterpreterRunner.validate                    *)
(*   collector the calls made on a DiagnosticCollector, the last one's     *)
(*             return value, and the list get_all last returned            *)
(***************************************************************************)
VARIABLES source, pc, lexer, diag, parser, outcome, abandoned, evaluation, runner, collector

vars == <<source, pc, lexer, diag, parser, outcome, abandoned, evaluation, runner, collector>>

NoParser ==
  [tokens |-> <<>>, pos |-> 0, loc |-> NoLocation, device_ref |-> Nothing,
   program_name |-> Nothing, loop_depth |-> 0, stmts |-> <<>>]

Running == [kind |-> "running", program |-> None, exc |-> "", err |-> NoErr]

\* no call of evaluate_const_expr
NoEvaluation == [expr |-> None, env |-> <<>>, result |-> None]

\* no call of InterpreterRunner.validate
\* No DiagnosticCollector is driven from outside parse: no call made, no
\* list returned by get_all, no last operation
NoCollector ==
  [calls |-> <<>>, op |-> "", snapshot |-> [ref |-> "none", items |-> <<>>],
   returned |-> <<>>]

NoRunner == [pc |-> "idle", i |-> 0, env |-> <<>>, errors |-> <<>>,
             buffer_decls |-> <<>>, const_positions |-> <<>>, result |-> None]

Init ==
  /\ source \in Sources
  /\ pc = "tokenize"
  /\ lexer = LexerInit
  /\ diag = <<>>
  /\ parser = NoParser
  /\ outcome = Running
  /\ abandoned = <<>>
  /\ evaluation = NoEvaluation
  /\ runner = NoRunner
  /\ collector = NoCollector

\* the parser state the productions work on
PState == [pos |-> parser.pos, diag |-> diag]

\* One iteration of the main loop of Lexer.tokenize
Tokenize ==
  /\ pc = "tokenize"
  /\ ~_at_end(source, lexer)
  /\ LET r == tokenize_iter(source, lexer)
     IN  /\ lexer' = r.L
         /\ diag' = diag \o r.errs
  /\ UNCHANGED <<source, pc, parser, outcome, abandoned, evaluation, runner, collector>>

\* The end of Lexer.tokenize and Parser(tokens, diag)
TokenizeReturn ==
  /\ pc = "tokenize"
  /\ _at_end(source, lexer)
  /\ lexer' = [lexer EXCEPT !.tokens = tokenize_eof(lexer)]
  /\ parser' = [NoParser EXCEPT !.tokens = tokenize_eof(lexer)]
  /\ pc' = "parse_program"
  /\ UNCHANGED <<source, diag, outcome, abandoned, evaluation, runner, collector>>

\* parse_program up to the body: the two optional headers
parse_program_headers(toks, P) ==
  Bind(_parse_device_header(toks, _skip_newlines(toks, P)), LAMBDA dev :
  Bind(_parse_program_header(toks, _skip_newlines(toks, dev.P)), LAMBDA prog :
  Ok(_skip_newlines(toks, prog.P), <<dev.node, prog.node>>)))

Raised(r) == [kind |-> "raised", program |-> None, exc |-> r.exc, err |-> r.err]

ParseHeaders ==
  /\ pc = "parse_program"
  /\ LET r == parse_program_headers(parser.tokens, PState)
     IN  /\ diag' = r.P.diag
         /\ IF r.exc # ""
            THEN /\ parser' = [parser EXCEPT !.pos = r.P.pos]
                 /\ outcome' = Raised(r)
                 /\ pc' = "done"
            ELSE /\ parser' = [parser EXCEPT !.pos = r.P.pos,
                                             !.loc = TokLoc(P_peek(parser.tokens, PState)),
                                             !.device_ref = r.node[1],
                                             !.program_name = r.node[2]]
                 /\ outcome' = outcome
                 /\ pc' = "_parse_body"
  /\ UNCHANGED <<source, lexer, abandoned, evaluation, runner, collector>>

\* _parse_body_iter with an endloop that leaves the loop depth as it is
_parse_body_iter_endloop_ignored(toks, P0, loop_depth, stmts) ==
  LET P == _skip_newlines(toks, P0)
      tok == P_peek(toks, P)
      skip(Q, depth) == [exc |-> "", err |-> NoErr, P |-> _skip_to_newline(toks, Q),
                         loop_depth |-> depth, stmts |-> stmts, abandoned |-> <<>>]
      decl(r) ==
        IF r.exc = ""
        THEN [exc |-> "", err |-> NoErr, P |-> r.P, loop_depth |-> loop_depth,
              stmts |-> Append(stmts, r.node), abandoned |-> <<>>]
        ELSE IF r.exc = "ParseError"
        THEN [exc |-> "", err |-> NoErr, P |-> _skip_to_newline(toks, r.P),
              loop_depth |-> loop_depth, stmts |-> stmts,
              abandoned |-> <<[stmt |-> TokLoc(tok), err |-> r.err]>>]
        ELSE [exc |-> r.exc, err |-> r.err, P |-> r.P, loop_depth |-> loop_depth,
              stmts |-> stmts, abandoned |-> <<>>]
  IN  IF tok.kind = "LOOP" THEN skip(P, loop_depth + 1)
      ELSE IF tok.kind = "ENDLOOP"
      THEN skip(P, loop_depth)
      ELSE IF tok.kind = "CONST"
      THEN IF loop_depth > 0
           THEN skip(P_error(P, "Const declaration not permitted inside loop body",
                             <<>>, tok), loop_depth)
           ELSE decl(Parse("parse_const_decl", toks, P))
      ELSE IF tok.kind = "BUFFER" THEN decl(Parse("parse_buffer_decl", toks, P))
      ELSE IF tok.kind = "LET" THEN decl(Parse("parse_let_decl", toks, P))
      ELSE skip(P, loop_depth)

\* One iteration of the loop of _parse_body that does not break: what it
\* does to the cursor and collector (P), the loop depth and the statements,
\* the exception that escapes it and the statement it gave up.
_parse_body_iter(toks, P0, loop_depth, stmts) ==
  LET P == _skip_newlines(toks, P0)
      tok == P_peek(toks, P)
      skip(Q, depth) == [exc |-> "", err |-> NoErr, P |-> _skip_to_newline(toks, Q),
                         loop_depth |-> depth, stmts |-> stmts, abandoned |-> <<>>]
      decl(r) ==
        IF r.exc = ""
        THEN [exc |-> "", err |-> NoErr, P |-> r.P, loop_depth |-> loop_depth,
              stmts |-> Append(stmts, r.node), abandoned |-> <<>>]
        ELSE IF r.exc = "ParseError"
        THEN [exc |-> "", err |-> NoErr, P |-> _skip_to_newline(toks, r.P),
              loop_depth |-> loop_depth, stmts |-> stmts,
              abandoned |-> <<[stmt |-> TokLoc(tok), err |-> r.err]>>]
        ELSE [exc |-> r.exc, err |-> r.err, P |-> r.P, loop_depth |-> loop_depth,
              stmts |-> stmts, abandoned |-> <<>>]
  IN  IF tok.kind = "LOOP" THEN skip(P, loop_depth + 1)
      ELSE IF tok.kind = "ENDLOOP"
      THEN skip(P, IF loop_depth > 0 THEN loop_depth - 1 ELSE loop_depth)
      ELSE IF tok.kind = "CONST"
      THEN IF loop_depth > 0
           THEN skip(P_error(P, "Const declaration not permitted inside loop body",
                             <<>>, tok), loop_depth)
           ELSE decl(Parse("parse_const_decl", toks, P))
      ELSE IF tok.kind = "BUFFER" THEN decl(Parse("parse_buffer_decl", toks, P))
      ELSE IF tok.kind = "LET" THEN decl(Parse("parse_let_decl", toks, P))
      ELSE skip(P, loop_depth)

RECURSIVE _parse_body(_, _, _, _)
\* the loop of _parse_body after one iteration: an exception that is not a
\* ParseError ends it, otherwise it goes on
_parse_body_next(toks, r) ==
  IF r.exc # ""
  THEN [exc |-> r.exc, err |-> r.err, P |-> r.P, node |-> r.stmts]
  ELSE _parse_body(toks, r.P, r.loop_depth, r.stmts)

\* Parser._parse_body: the loop run to its end; node is the statement list
_parse_body(toks, P, loop_depth, stmts) ==
  IF P_at_end(toks, _skip_newlines(toks, P))
  THEN Ok(_skip_newlines(toks, P), stmts)
  ELSE _parse_body_next(toks, _parse_body_iter(toks, P, loop_depth, stmts))

\* Parser.parse_program
parse_program(toks, P) ==
  Bind(parse_program_headers(toks, P), LAMBDA h :
  Bind(_parse_body(toks, h.P, 0, <<>>), LAMBDA b :
  Ok(b.P, ProgramNode(h.node[1], h.node[2], b.node, TokLoc(P_peek(toks, P))))))

\* Parser(tokens, diag).parse_program() on what the lexer returned
parse_tokens(lexed) == parse_program(lexed.tokens, [pos |-> 0, diag |-> lexed.errs])

\* parse(source): node is the ProgramNode and P.diag the collector's records
parse(src) == parse_tokens(tokenize(src))

ParseBody ==
  /\ pc = "_parse_body"
  /\ ~P_at_end(parser.tokens, _skip_newlines(parser.tokens, PState))
  /\ LET r == _parse_body_iter(parser.tokens, PState, parser.loop_depth, parser.stmts)
     IN  /\ diag' = r.P.diag
         /\ parser' = [parser EXCEPT !.pos = r.P.pos, !.loop_depth = r.loop_depth,
                                     !.stmts = r.stmts]
         /\ abandoned' = abandoned \o r.abandoned
         /\ IF r.exc # ""
            THEN outcome' = Raised(r) /\ pc' = "done"
            ELSE outcome' = outcome /\ pc' = pc
  /\ UNCHANGED <<source, lexer, evaluation, runner, collector>>

\* The loop of _parse_body ends; parse_program and parse return
ParseReturn ==
  /\ pc = "_parse_body"
  /\ P_at_end(parser.tokens, _skip_newlines(parser.tokens, PState))
  /\ parser' = [parser EXCEPT !.pos = _skip_newlines(parser.tokens, PState).pos]
  /\ outcome' = [kind |-> "returned",
                 program |-> ProgramNode(parser.device_ref, parser.program_name,
                                         parser.stmts, parser.loc),
                 exc |-> "", err |-> NoErr]
  /\ pc' = "done"
  /\ UNCHANGED <<source, lexer, diag, abandoned, evaluation, runner, collector>>

Next ==
  \/ Tokenize
  \/ TokenizeReturn
  \/ ParseHeaders
  \/ ParseBody
  \/ ParseReturn

Spec == Init /\ [][Next]_vars

(***************************************************************************)
(* One call of evaluate_const_expr(expr, env).  The arguments are a        *)
(* literal, a name, or one operator applied to operands that are small     *)
(* integers, integers past 2^53, names bound or not bound in env, float    *)
(* literals, or small sub-expressions (a float under a minus or in         *)
(* parentheses, a division by zero, a quotient too large for a float).     *)
(***************************************************************************)
MaxOperand == 7

\* 2^k as a magnitude
MagPow2(k) == MagShl(MagOne, k)

\* 2^53 + 1, the first integer that is not a double
FirstNonDouble == PyInt(FALSE, MagAdd(MagPow2(DBL_MANT_DIG), MagOne))

EvalOperandValues ==
  {IntOf(n) : n \in (0 - MaxOperand)..MaxOperand}
    \cup {FirstNonDouble, IntNeg(FirstNonDouble), PyInt(FALSE, MagPow2(DBL_MANT_DIG))}

OperandLocations == {SourceLocation(1, 11), SourceLocation(1, 15)}

\* the operands at a location
EvalOperands(loc) ==
  {IntLiteral(v, loc) : v \in EvalOperandValues}
    \cup {Identifier(<<"Z">>, loc), Identifier(<<"N">>, loc), Identifier(<<"U">>, loc),
          ParenExpr(IntLiteral(IntZero, loc), loc),
          BinaryOp(<<"-">>, IntLiteral(IntOf(1), loc), IntLiteral(IntOf(1), loc), loc),
          UnaryOp(<<"-">>, IntLiteral(IntOf(7), loc), loc),
          FloatLiteral(PyFloat(<<"1", ".", "5">>), loc),
          UnaryOp(<<"-">>, FloatLiteral(PyFloat(<<"1", ".", "5">>), loc), loc),
          ParenExpr(FloatLiteral(PyFloat(<<"1", ".", "5">>), loc), loc),
          ParenExpr(BinaryOp(<<"/">>, IntLiteral(IntOf(1), loc), IntLiteral(IntZero, loc),
                             loc), loc),
          BinaryOp(<<"/">>, IntLiteral(PyInt(FALSE, MagPow2(DBL_MAX_EXP)), loc),
                   IntLiteral(IntOf(1), loc), loc)}

EvalOps == {<<"+">>, <<"-">>, <<"*">>, <<"/">>, <<"m", "o", "d">>}

EvalExprs ==
  EvalOperands(SourceLocation(1, 11))
    \cup {BinaryOp(op, l, r, SourceLocation(1, 13)) :
            op \in EvalOps, l \in EvalOperands(SourceLocation(1, 11)),
            r \in EvalOperands(SourceLocation(1, 15))}

\* env: Z is 0 and N is -7, or nothing is declared
EvalEnvs == {(<<"Z">> :> IntZero) @@ (<<"N">> :> IntOf(0 - 7)), <<>>}

InitEval ==
  /\ source = <<>>
  /\ pc = "evaluate_const_expr"
  /\ lexer = LexerInit
  /\ diag = <<>>
  /\ parser = NoParser
  /\ outcome = Running
  /\ abandoned = <<>>
  /\ evaluation \in [expr : EvalExprs, env : EvalEnvs, result : {None}]
  /\ runner = NoRunner
  /\ collector = NoCollector

\* The call of evaluate_const_expr returns or raises
Evaluate ==
  /\ pc = "evaluate_const_expr"
  /\ evaluation' = [evaluation EXCEPT
                      !.result = evaluate_const_expr(evaluation.expr, evaluation.env)]
  /\ pc' = "done"
  /\ UNCHANGED <<source, lexer, diag, parser, outcome, abandoned, runner, collector>>

NextEval == Evaluate

SpecEval == InitEval /\ [][NextEval]_vars

(***************************************************************************)
(* InterpreterRunner.validate(source): parse, then the const declarations  *)
(* of the program evaluated in order.  runner.pc is "parse" while parse    *)
(* runs, "loop" in the loop over program.statements (i is the index of     *)
(* the next statement) and "done" when validate has returned or raised.    *)
(***************************************************************************)
MaxValidateLines == 3

\* The conformance cases of forward, self and mutual reference, a division
\* by zero before and after a reference, a buffer and a malformed const
ValidateLines ==
  {
    <<"c", "o", "n", "s", "t", " ", "A", " ", "=", " ", "B", " ", "+", " ", "1">>,
    <<"c", "o", "n", "s", "t", " ", "B", " ", "=", " ", "1", "0">>,
    <<"c", "o", "n", "s", "t", " ", "A", " ", "=", " ", "A", " ", "+", " ", "1">>,
    <<"c", "o", "n", "s", "t", " ", "A", " ", "=", " ", "B">>,
    <<"c", "o", "n", "s", "t", " ", "B", " ", "=", " ", "A">>,
    <<"c", "o", "n", "s", "t", " ", "A", " ", "=", " ", "1", " ", "/", " ", "0", " ", "+", " ", "B">>,
    <<"c", "o", "n", "s", "t", " ", "C", " ", "=", " ", "B", " ", "/", " ", "0">>,
    <<"b", "u", "f", "f", "e", "r", " ", "A", " ", ":", " ", "L", "2", " ", "(", "s", "i", "z", "e", "=", "5", ")">>,
    <<"c", "o", "n", "s", "t", " ", "C", " ", "=", " ", "1", " ", "+">>
  }

\* a buffer and a const of one name declared on the same line, in either order
SameLineSources ==
  {
    <<"b", "u", "f", "f", "e", "r", " ", "A", " ", ":", " ", "L", "2", " ", "(", "s", "i", "z", "e", "=", "5", ")", " ", "c", "o", "n", "s", "t", " ", "A", " ", "=", " ", "1">>,
    <<"c", "o", "n", "s", "t", " ", "B", " ", "=", " ", "1", "0", " ", "b", "u", "f", "f", "e", "r", " ", "B", " ", ":", " ", "L", "2", " ", "(", "s", "i", "z", "e", "=", "5", ")">>
  }

ValidateSources ==
  {JoinLines(ls) : ls \in SeqsUpTo(ValidateLines, MaxValidateLines)} \cup SameLineSources

InitValidate ==
  /\ source \in ValidateSources
  /\ pc = "tokenize"
  /\ lexer = LexerInit
  /\ diag = <<>>
  /\ parser = NoParser
  /\ outcome = Running
  /\ abandoned = <<>>
  /\ evaluation = NoEvaluation
  /\ runner = [NoRunner EXCEPT !.pc = "parse"]
  /\ collector = NoCollector

\* an entry of the runner's errors list
RunnerError(message, detail) == [message |-> message, detail |-> detail]

\* ValidationResult(valid, diagnostics)
ValidationResult(valid, diagnostics) == [valid |-> valid, diagnostics |-> diagnostics]

\* the positions of the `buffer NAME` token pairs of the pre-scan
BufferTokens(tokens) ==
  {i \in 1..(Len(tokens) - 1) : tokens[i].kind = "BUFFER" /\ tokens[i + 1].kind = "IDENT"}

\* buffer_decls after the pre-scan: each buffer name with the line of its
\* last declaration
buffer_decls(tokens) ==
  [name \in {tokens[i + 1].lexeme : i \in BufferTokens(tokens)} |->
     tokens[MaxOf({i \in BufferTokens(tokens) : tokens[i + 1].lexeme = name})].line]

RECURSIVE buffer_items(_, _, _)
\* buffer_decls.items(): the names in the order they were first inserted
buffer_items(tokens, i, names) ==
  IF i >= Len(tokens) THEN names
  ELSE IF i \in BufferTokens(tokens)
          /\ \A k \in 1..Len(names) : names[k] # tokens[i + 1].lexeme
  THEN buffer_items(tokens, i + 1, Append(names, tokens[i + 1].lexeme))
  ELSE buffer_items(tokens, i + 1, names)

\* validate after parse returned: the early return on parse errors, or the
\* pre-scan.  An exception that escaped parse escapes validate.
ValidateParsed ==
  /\ runner.pc = "parse"
  /\ pc = "done"
  /\ runner' =
       IF outcome.kind = "raised"
       THEN [runner EXCEPT !.pc = "done",
                           !.result = [raised |-> outcome.exc, err |-> outcome.err]]
       ELSE IF has_errors(diag)
       THEN [runner EXCEPT !.pc = "done", !.result = ValidationResult(FALSE, diag)]
       ELSE [runner EXCEPT !.pc = "loop", !.i = 1,
                           !.buffer_decls = buffer_decls(tokenize(source).tokens)]
  /\ UNCHANGED <<source, pc, lexer, diag, parser, outcome, abandoned, evaluation, collector>>

\* the try statement with the name bound even when the evaluation raised
try_evaluate_binding(stmt, R, value) ==
  IF value.ok
  THEN [R EXCEPT !.env = (stmt.name :> value.value) @@ @]
  ELSE [R EXCEPT !.env = (stmt.name :> IntZero) @@ @,
                 !.errors = Append(@, RunnerError(value.message, value.detail))]

\* The try statement of the loop body, value being what
\* evaluate_const_expr(stmt.value, env) returned or raised: an exception
\* other than ConstEvalError escapes validate
try_evaluate(stmt, R, value) ==
  IF value.ok
  THEN [R EXCEPT !.env = (stmt.name :> value.value) @@ @]
  ELSE IF value.exc = "ConstEvalError"
  THEN [R EXCEPT !.errors = Append(@, RunnerError(value.message, value.detail))]
  ELSE [R EXCEPT !.pc = "done",
                 !.result = [raised |-> value.exc,
                             err |-> [message |-> value.message,
                                      line |-> value.location.line,
                                      col |-> value.location.col]]]

\* const_positions[stmt.name] = const_line
track_position(stmt, R) ==
  [R EXCEPT !.const_positions = (stmt.name :> stmt.location.line) @@ @]

\* The body of the loop over program.statements for the statement stmt
validate_stmt(stmt, R) ==
  IF stmt.type # "ConstDeclNode" THEN R
  ELSE IF stmt.name \in DOMAIN R.buffer_decls
          /\ R.buffer_decls[stmt.name] < stmt.location.line
  THEN [track_position(stmt, R) EXCEPT !.errors =
          Append(@, RunnerError("Name conflict - already declared as buffer", stmt.name))]
  ELSE IF stmt.name \in DOMAIN R.env
  THEN [track_position(stmt, R) EXCEPT !.errors =
          Append(@, RunnerError("Duplicate constant declaration", stmt.name))]
  ELSE try_evaluate(stmt, track_position(stmt, R),
                    evaluate_const_expr(stmt.value, R.env))

\* One iteration of the loop over program.statements
ValidateStmt ==
  /\ runner.pc = "loop"
  /\ runner.i <= Len(outcome.program.statements)
  /\ runner' = validate_stmt(outcome.program.statements[runner.i],
                             [runner EXCEPT !.i = @ + 1])
  /\ UNCHANGED <<source, pc, lexer, diag, parser, outcome, abandoned, evaluation, collector>>

\* the errors of the buffers declared after a const of the same name
buffer_after_const(R, names) ==
  LET conflict(name) ==
        name \in DOMAIN R.const_positions
          /\ R.const_positions[name] < R.buffer_decls[name]
  IN  [k \in 1..Len(SelectSeq(names, conflict)) |->
         RunnerError("Name conflict - already declared as const",
                     SelectSeq(names, conflict)[k])]

\* After the loop: the buffer-after-const check and the result
ValidateReturn ==
  /\ runner.pc = "loop"
  /\ runner.i > Len(outcome.program.statements)
  /\ LET errors == runner.errors
                     \o buffer_after_const(runner, buffer_items(tokenize(source).tokens,
                                                               1, <<>>))
     IN  runner' = [runner EXCEPT
                      !.pc = "done",
                      !.errors = errors,
                      !.result = ValidationResult(Len(errors) = 0 /\ ~has_errors(diag),
                                                  diag \o errors)]
  /\ UNCHANGED <<source, pc, lexer, diag, parser, outcome, abandoned, evaluation, collector>>

NextValidate ==
  \/ Tokenize
  \/ TokenizeReturn
  \/ ParseHeaders
  \/ ParseBody
  \/ ParseReturn
  \/ ValidateParsed
  \/ ValidateStmt
  \/ ValidateReturn

SpecValidate == InitValidate /\ [][NextValidate]_vars

(***************************************************************************)
(* The source text seen as lines, for the properties that speak of source  *)
(* lines.                                                                  *)
(***************************************************************************)
RECURSIVE SplitLinesFrom(_, _, _)
SplitLinesFrom(src, i, cur) ==
  IF i > Len(src) THEN <<cur>>
  ELSE IF src[i] = "\n" THEN <<cur>> \o SplitLinesFrom(src, i + 1, <<>>)
  ELSE SplitLinesFrom(src, i + 1, Append(cur, src[i]))

\* source.split("\n")
SplitLines(src) == SplitLinesFrom(src, 1, <<>>)

LoopLine == <<"l", "o", "o", "p">>

EndloopLine == <<"e", "n", "d", "l", "o", "o", "p">>

ConstLine == <<"c", "o", "n", "s", "t", " ", "A", " ", "=", " ", "1">>

BufferLine ==
  <<"b", "u", "f", "f", "e", "r", " ", "G", " ", ":", " ", "L", "2", " ", "(", "s", "i", "z", "e", "=", "5", ")">>

LetLine == <<"l", "e", "t", " ", "x", " ", "=", " ", "2">>

UnterminatedLine == <<"c", "o", "n", "s", "t", " ", "B", " ", "=", " ", "\"", "x">>

\* the lines of the inputs that are complete, well-formed declarations
WellFormedDeclarations == {ConstLine, BufferLine, LetLine}

RECURSIVE Unmatched(_, _)
\* the number of `loop` lines among the first n lines not matched by a
\* later `endloop` among them
Unmatched(lines, n) ==
  IF n = 0 THEN 0
  ELSE LET before == Unmatched(lines, n - 1)
       IN  IF lines[n] = LoopLine THEN before + 1
           ELSE IF lines[n] = EndloopLine /\ before > 0 THEN before - 1
           ELSE before

ParseReturned == pc = "done" /\ outcome.kind = "returned"

\* the statements of the returned program that start on the given line
StatementsAt(line) ==
  {s \in 1..Len(outcome.program.statements) :
     outcome.program.statements[s].location.line = line}

(***************************************************************************)
(* C1.  parse returns a (ProgramNode, DiagnosticCollector) pair for every  *)
(* source text; no exception, ParseError or other, escapes the call, also  *)
(* when a device or program header is malformed.                           *)
(***************************************************************************)
C1_ParseAlwaysReturns ==
  /\ outcome.kind # "raised"
  /\ pc = "done" => outcome.kind = "returned" /\ outcome.program.type = "ProgramNode"

(***************************************************************************)
(* C2.  Statement-level recovery: when parse has returned, every           *)
(* declaration given up by recovery has left an Error diagnostic, and      *)
(* every well-formed const (outside any loop), buffer or let declaration   *)
(* on a later source line is in ProgramNode.statements; the statements     *)
(* are in source order.                                                    *)
(***************************************************************************)
C2_LaterStatementsSurvive ==
  ParseReturned =>
    LET lines == SplitLines(source)
        stmts == outcome.program.statements
    IN  /\ abandoned # <<>> => has_errors(diag)
        /\ \A k \in 1..Len(abandoned) : \A j \in 1..Len(lines) :
             (/\ j > abandoned[k].stmt.line
              /\ lines[j] \in WellFormedDeclarations
              /\ lines[j] = ConstLine => Unmatched(lines, j - 1) = 0)
               => StatementsAt(j) # {}
        /\ \A s, t \in 1..Len(stmts) :
             s < t => stmts[s].location.line <= stmts[t].location.line

(***************************************************************************)
(* C3.  The token list tokenize returns holds exactly one EOF token and    *)
(* it is the last element; while the list is being built it holds none.    *)
(***************************************************************************)
C3_ExactlyOneEOFLast ==
  LET toks == lexer.tokens
  IN  IF pc = "tokenize"
      THEN \A i \in 1..Len(toks) : toks[i].kind # "EOF"
      ELSE /\ Len(toks) > 0
           /\ toks[Len(toks)].kind = "EOF"
           /\ \A i \in 1..(Len(toks) - 1) : toks[i].kind # "EOF"

\* tokenize has returned for an input that ends inside an unterminated
\* string and for one made of a comment only
C3_Witness ==
  /\ pc # "tokenize"
  /\ source = <<"1", " ", "\"", "1">>
  /\ Len(lexer.tokens) = 3
  /\ lexer.tokens[2].kind = "STRING_LIT"
  /\ lexer.tokens[3].kind = "EOF"

(***************************************************************************)
(* C4.  parse terminates on every finite source: every iteration of the    *)
(* lexer's main loop consumes at least one character and every iteration   *)
(* of the statement loop at least one token, so that the parser's cursor   *)
(* eventually reaches EOF and parse_program returns: the call ends, and    *)
(* ends by returning with the cursor at EOF.                               *)
(***************************************************************************)
C4_ParseTerminatesAndReturns ==
  [][/\ (pc = "tokenize" /\ ~_at_end(source, lexer)) =>
          lexer'.pos > lexer.pos /\ lexer'.pos <= Len(source)
     /\ (pc = "_parse_body" /\ pc' = "_parse_body") =>
          parser'.pos > parser.pos /\ parser'.pos < Len(parser.tokens)
     /\ (pc # "done" /\ pc' = "done") =>
          /\ outcome'.kind = "returned"
          /\ parser.tokens[parser'.pos + 1].kind = "EOF"]_vars

(***************************************************************************)
(* C5.  In a source made of `loop`, `endloop`, const and let lines, a      *)
(* const line with an unmatched `loop` line before it records the Error    *)
(* 'Const declaration not permitted inside loop body' and adds no          *)
(* statement; a const line with none (also after every loop was closed)    *)
(* is parsed into a ConstDeclNode.                                         *)
(***************************************************************************)
C5_ConstOnlyOutsideLoops ==
  LET lines == SplitLines(source)
      stmts == outcome.program.statements
      rejected(j) == error("Const declaration not permitted inside loop body", <<>>, j, 1)
  IN  (ParseReturned /\ \A j \in 1..Len(lines) : lines[j] \in LoopLines) =>
        \A j \in 1..Len(lines) :
          lines[j] = ConstLine =>
            IF Unmatched(lines, j - 1) > 0
            THEN /\ \E d \in 1..Len(diag) : diag[d] = rejected(j)
                 /\ StatementsAt(j) = {}
            ELSE /\ \E s \in StatementsAt(j) :
                      /\ stmts[s].type = "ConstDeclNode"
                      /\ stmts[s].name = <<"A">>
                 /\ \A d \in 1..Len(diag) : diag[d].line # j

\* a const inside a loop and one after that loop was closed
C5_Witness ==
  /\ ParseReturned
  /\ source = JoinLines(<<LoopLine, ConstLine, EndloopLine, ConstLine>>)
  /\ Len(diag) = 1
  /\ diag[1].line = 2
  /\ Len(outcome.program.statements) = 1
  /\ outcome.program.statements[1].location.line = 4

(***************************************************************************)
(* C10.  At a digit run followed by '.', the lexer emits one FLOAT_LIT     *)
(* when the character right after the '.' is a digit; otherwise it emits   *)
(* INT_LIT for the digit run and leaves the dots.  At two consecutive      *)
(* dots it emits one DOTDOT token, at a single dot one DOT.                *)
(***************************************************************************)
RECURSIVE DigitRunEnd(_, _)
\* the index of the first character from index i on that is not a digit
DigitRunEnd(src, i) ==
  IF i <= Len(src) /\ src[i] \in DecimalDigits THEN DigitRunEnd(src, i + 1) ELSE i

C10_FloatOnlyBeforeDigit ==
  [][(pc = "tokenize" /\ ~_at_end(source, lexer)) =>
       LET p == lexer.pos + 1
           e == DigitRunEnd(source, p)
           At(i) == IF i <= Len(source) THEN source[i] ELSE ""
           one == Len(lexer'.tokens) = Len(lexer.tokens) + 1
           new == lexer'.tokens[Len(lexer'.tokens)]
       IN  /\ (source[p] \in DecimalDigits /\ At(e) = ".") =>
                 /\ one
                 /\ IF At(e + 1) \in DecimalDigits
                    THEN /\ new.kind = "FLOAT_LIT"
                         /\ lexer'.pos >= e + 1
                         /\ SubSeq(new.lexeme, 1, e + 2 - p) = SubSeq(source, p, e + 1)
                    ELSE /\ new.kind = "INT_LIT"
                         /\ new.lexeme = SubSeq(source, p, e - 1)
                         /\ lexer'.pos = e - 1
           /\ source[p] = "." =>
                 /\ one
                 /\ IF At(p + 1) = "."
                    THEN new.kind = "DOTDOT" /\ lexer'.pos = lexer.pos + 2
                    ELSE new.kind = "DOT" /\ lexer'.pos = lexer.pos + 1]_vars

\* `1..e` has been tokenized as INT_LIT, DOTDOT, IDENT
C10_Witness ==
  /\ pc # "tokenize"
  /\ source = <<"1", ".", ".", "e">>
  /\ [i \in 1..Len(lexer.tokens) |-> lexer.tokens[i].kind]
       = <<"INT_LIT", "DOTDOT", "IDENT", "EOF">>

\* The part of C4 on the loops alone: every iteration of the lexer's main
\* loop consumes a character and every iteration of the statement loop a
\* token, within the text and the token list.
EveryIterationConsumes ==
  [][/\ (pc = "tokenize" /\ ~_at_end(source, lexer)) =>
          lexer'.pos > lexer.pos /\ lexer'.pos <= Len(source)
     /\ (pc = "_parse_body" /\ pc' = "_parse_body") =>
          parser'.pos > parser.pos /\ parser'.pos < Len(parser.tokens)]_vars

Evaluated == pc = "done" /\ evaluation.result # None

\* the expression evaluated is `a op b` for integer literals a and b # 0
LiteralOperation(op) ==
  /\ evaluation.expr.type = "BinaryOp"
  /\ evaluation.expr.op = op
  /\ evaluation.expr.left.type = "IntLiteral"
  /\ evaluation.expr.right.type = "IntLiteral"
  /\ evaluation.expr.right.value # IntZero

(***************************************************************************)
(* C6.  For integers a and b # 0, `a / b` evaluates to the quotient        *)
(* truncated toward zero: its magnitude is floor(|a| / |b|) and it is      *)
(* negative exactly when a and b have opposite signs and |a| >= |b|.       *)
(***************************************************************************)
C6_DivisionTruncatesTowardZero ==
  (Evaluated /\ LiteralOperation(<<"/">>)) =>
    LET a == evaluation.expr.left.value
        b == evaluation.expr.right.value
        q == evaluation.result
    IN  /\ q.ok
        /\ q.value.mag = MagDivMod(a.mag, b.mag).q
        /\ q.value.neg <=> (a.neg # b.neg /\ MagCmp(a.mag, b.mag) >= 0)

(***************************************************************************)
(* C7.  For integers a and b # 0, `a mod b` evaluates to a remainder that  *)
(* is zero or has the sign of the dividend a, and together with the        *)
(* evaluator's division it gives back a: (a / b) * b + (a mod b) = a.      *)
(***************************************************************************)
C7_RemainderHasDividendSign ==
  (Evaluated /\ LiteralOperation(<<"m", "o", "d">>)) =>
    LET a == evaluation.expr.left.value
        b == evaluation.expr.right.value
        r == evaluation.result
        q == evaluate_const_expr([evaluation.expr EXCEPT !.op = <<"/">>], evaluation.env)
    IN  /\ r.ok
        /\ r.value = IntZero \/ r.value.neg = a.neg
        /\ q.ok
        /\ IntAdd(IntMul(q.value, b), r.value) = a

(***************************************************************************)
(* C8.  When both operands of a `/` or `mod` evaluate successfully and     *)
(* the right one evaluates to 0 (a literal, a name bound to 0 or a         *)
(* sub-expression), evaluate_const_expr raises ConstEvalError 'Division    *)
(* by zero in constant expression' at the BinaryOp's location and returns  *)
(* no integer.                                                             *)
(***************************************************************************)
C8_DivisionByZeroRaises ==
  (/\ Evaluated
   /\ evaluation.expr.type = "BinaryOp"
   /\ evaluation.expr.op \in {<<"/">>, <<"m", "o", "d">>}
   /\ evaluate_const_expr(evaluation.expr.left, evaluation.env).ok
   /\ evaluate_const_expr(evaluation.expr.right, evaluation.env) = Returned(IntZero))
    => evaluation.result =
         ConstEvalError("Division by zero in constant expression", <<>>,
                        evaluation.expr.location)

\* `7 mod Z` with Z bound to 0 has raised the error at the operator
C8_Witness ==
  /\ Evaluated
  /\ evaluation.expr = BinaryOp(<<"m", "o", "d">>,
                                IntLiteral(IntOf(7), SourceLocation(1, 11)),
                                Identifier(<<"Z">>, SourceLocation(1, 15)),
                                SourceLocation(1, 13))
  /\ evaluation.env # <<>>
  /\ ~evaluation.result.ok
  /\ evaluation.result.location = SourceLocation(1, 13)

RECURSIVE Identifiers(_)
\* the names an expression references, in the order they are evaluated
Identifiers(expr) ==
  IF expr.type = "Identifier" THEN <<expr.name>>
  ELSE IF expr.type = "BinaryOp" THEN Identifiers(expr.left) \o Identifiers(expr.right)
  ELSE IF expr.type = "UnaryOp" THEN Identifiers(expr.operand)
  ELSE IF expr.type = "ParenExpr" THEN Identifiers(expr.expr)
  ELSE <<>>

\* the first name of expr, in evaluation order, that env does not hold;
\* <<>> when env holds them all
FirstAbsent(expr, env) ==
  LET absent == SelectSeq(Identifiers(expr), LAMBDA name : name \notin DOMAIN env)
  IN  IF absent = <<>> THEN <<>> ELSE Head(absent)

RECURSIVE RaisesBefore(_, _)
\* a sub-expression that is evaluated before the first absent name of expr
\* raises
RaisesBefore(expr, env) ==
  IF expr.type = "BinaryOp"
  THEN IF FirstAbsent(expr.left, env) # <<>>
       THEN RaisesBefore(expr.left, env)
       ELSE ~evaluate_const_expr(expr.left, env).ok \/ RaisesBefore(expr.right, env)
  ELSE IF expr.type = "UnaryOp" THEN RaisesBefore(expr.operand, env)
  ELSE IF expr.type = "ParenExpr" THEN RaisesBefore(expr.expr, env)
  ELSE FALSE

\* the statement the loop of validate is about to handle
CurrentStmt == outcome.program.statements[runner.i]

\* the loop of validate is about to evaluate a const declaration: it is
\* neither in conflict with an earlier buffer nor a duplicate
EvaluatesConst ==
  /\ runner.pc = "loop"
  /\ runner.i <= Len(outcome.program.statements)
  /\ CurrentStmt.type = "ConstDeclNode"
  /\ ~(CurrentStmt.name \in DOMAIN runner.buffer_decls
         /\ runner.buffer_decls[CurrentStmt.name] < CurrentStmt.location.line)
  /\ CurrentStmt.name \notin DOMAIN runner.env

\* the names of the consts declared after the current statement
LaterConsts ==
  {outcome.program.statements[k].name :
     k \in {j \in (runner.i + 1)..Len(outcome.program.statements) :
              outcome.program.statements[j].type = "ConstDeclNode"}}

\* the names the current statement references that are its own or a later
\* const's, and that env does not hold
ForwardNames ==
  {name \in {Identifiers(CurrentStmt.value)[k] :
               k \in 1..Len(Identifiers(CurrentStmt.value))} :
     /\ name \in LaterConsts \cup {CurrentStmt.name}
     /\ name \notin DOMAIN runner.env}

\* the iteration appended the forward-reference error naming `name`
ForwardReferenceReported(name) ==
  /\ runner'.pc = "loop"
  /\ runner'.errors =
       Append(runner.errors,
              RunnerError("Forward reference to undeclared constant", name))

(***************************************************************************)
(* C9.  With the const declarations evaluated in declaration order, a      *)
(* const whose expression references its own name or the name of a const   *)
(* declared later fails with the error 'Forward reference to undeclared    *)
(* constant <name>' naming that identifier, and its name is not added to   *)
(* env.                                                                    *)
(***************************************************************************)
C9_ForwardReferenceFails ==
  [][(EvaluatesConst /\ ForwardNames # {}) =>
       /\ \E name \in ForwardNames : ForwardReferenceReported(name)
       /\ runner'.env = runner.env]_vars

(***************************************************************************)
(* C9, amended.  A const that is evaluated and whose expression            *)
(* references a name absent from env never adds its name to env.  It       *)
(* fails with 'Forward reference to undeclared constant <name>' naming     *)
(* the first absent name in evaluation order, unless a sub-expression      *)
(* evaluated before that name raises first; then the error is not the      *)
(* forward-reference one.                                                  *)
(***************************************************************************)
C9_AbsentNameFails ==
  [][(EvaluatesConst /\ FirstAbsent(CurrentStmt.value, runner.env) # <<>>) =>
       /\ runner'.env = runner.env
       /\ CurrentStmt.name \notin DOMAIN runner'.env
       /\ IF RaisesBefore(CurrentStmt.value, runner.env)
          THEN \/ runner'.pc = "done"
               \/ /\ Len(runner'.errors) = Len(runner.errors) + 1
                  /\ runner'.errors[Len(runner'.errors)].message
                       # "Forward reference to undeclared constant"
          ELSE ForwardReferenceReported(FirstAbsent(CurrentStmt.value, runner.env))]_vars

\* `const A = B + 1` then `const B = 10`: validate returned with the
\* forward-reference error naming B, and env holds B only
C9_Witness ==
  /\ source = JoinLines(<<
       <<"c", "o", "n", "s", "t", " ", "A", " ", "=", " ", "B", " ", "+", " ", "1">>,
       <<"c", "o", "n", "s", "t", " ", "B", " ", "=", " ", "1", "0">> >>)
  /\ runner.pc = "done"
  /\ runner.errors = <<RunnerError("Forward reference to undeclared constant", <<"B">>)>>
  /\ DOMAIN runner.env = {<<"B">>}
  /\ runner.result.valid = FALSE

(***************************************************************************)
(* C11.  The token stream never starts with NEWLINE and never holds two    *)
(* adjacent NEWLINE tokens: a NEWLINE is emitted only after a token that   *)
(* is not a NEWLINE, also when the lines in between hold only whitespace,  *)
(* comments or unrecognised characters.                                    *)
(***************************************************************************)
C11_NewlinesCollapse ==
  LET toks == lexer.tokens
  IN  \A i \in 1..Len(toks) :
        toks[i].kind = "NEWLINE" => (i > 1 /\ toks[i - 1].kind # "NEWLINE")

(***************************************************************************)
(* A DiagnosticCollector driven by its caller: up to MaxCalls calls of     *)
(* error, warning and info, with has_errors, get_all and format_all in     *)
(* between, and the caller mutating the list get_all returned.  diag is    *)
(* the collector's _diagnostics; collector.calls is the history of the     *)
(* recording calls, collector.op the last operation and                    *)
(* collector.returned what it returned.  collector.snapshot is the list    *)
(* the last get_all returned: ref says whether it is a list of its own     *)
(* ("copy") or the _diagnostics list itself ("self").                      *)
(***************************************************************************)
MaxCalls == 3

\* the file of every location
CollectorFile == <<"t", ".", "n", "e", "m">>

\* the arguments of the recording calls: a message without a location and
\* a message with one
CallArguments ==
  {[message |-> <<"a">>, line |-> 0, col |-> 0],
   [message |-> <<"b">>, line |-> 2, col |-> 13]}

\* a record the collector never made, which the caller puts in a list
ForeignRecord == Diagnostic("ERROR", <<"x">>, <<>>, 9, 9)

InitCollector ==
  /\ source = <<>>
  /\ pc = "collector"
  /\ lexer = LexerInit
  /\ diag = <<>>
  /\ parser = NoParser
  /\ outcome = Running
  /\ abandoned = <<>>
  /\ evaluation = NoEvaluation
  /\ runner = NoRunner
  /\ collector = NoCollector

\* One call of error, warning or info: record is what the method appends
Record(kind, args, record) ==
  /\ Len(collector.calls) < MaxCalls
  /\ diag' = Append(diag, record)
  /\ collector' = [collector EXCEPT
                     !.calls = Append(@, [kind |-> kind, args |-> args]),
                     !.op = kind,
                     !.returned = <<>>,
                     !.snapshot = IF @.ref = "self"
                                  THEN [@ EXCEPT !.items = Append(diag, record)]
                                  ELSE @]
  /\ UNCHANGED <<source, pc, lexer, parser, outcome, abandoned, evaluation, runner>>

CallError ==
  /\ pc = "collector"
  /\ \E args \in CallArguments :
       Record("error", args, error(args.message, <<>>, args.line, args.col))

CallWarning ==
  /\ pc = "collector"
  /\ \E args \in CallArguments :
       Record("warning", args, warning(args.message, <<>>, args.line, args.col))

CallInfo ==
  /\ pc = "collector"
  /\ \E args \in CallArguments :
       Record("info", args, info(args.message, <<>>, args.line, args.col))

\* A call that returns a value and assigns nothing
Query(op, value) ==
  /\ collector' = [collector EXCEPT !.op = op, !.returned = value]
  /\ UNCHANGED <<source, pc, lexer, diag, parser, outcome, abandoned, evaluation, runner>>

CallHasErrors ==
  /\ pc = "collector"
  /\ Query("has_errors", <<has_errors(diag)>>)

\* get_all with the _diagnostics list itself returned
get_all_no_copy(ds) == [ref |-> "self", items |-> ds]

\* get_all: list(self._diagnostics) is a new list with the same records
get_all(ds) == [ref |-> "copy", items |-> ds]

CallGetAll ==
  /\ pc = "collector"
  /\ collector' = [collector EXCEPT !.op = "get_all", !.returned = <<>>,
                                    !.snapshot = get_all(diag)]
  /\ UNCHANGED <<source, pc, lexer, diag, parser, outcome, abandoned, evaluation, runner>>

\* what a caller does to a list: pop, append, overwrite the first item
ListMutations(items) ==
  {Append(items, ForeignRecord)}
    \cup (IF items = <<>> THEN {}
          ELSE {SubSeq(items, 1, Len(items) - 1),
                [items EXCEPT ![1] = ForeignRecord]})

\* The caller mutates the list the last get_all returned; when that list
\* is the _diagnostics list the collector's records change with it
MutateSnapshot ==
  /\ pc = "collector"
  /\ collector.op = "get_all"
  /\ \E items \in ListMutations(collector.snapshot.items) :
       /\ collector' = [collector EXCEPT !.op = "mutate", !.returned = <<>>,
                                         !.snapshot.items = items]
       /\ diag' = IF collector.snapshot.ref = "self" THEN items ELSE diag
  /\ UNCHANGED <<source, pc, lexer, parser, outcome, abandoned, evaluation, runner>>

DigitChar(n) == CHOOSE c \in DecimalDigits : DigitValue(c) = n

RECURSIVE int_str(_)
\* str(n) for n >= 0
int_str(n) ==
  IF n < 10 THEN <<DigitChar(n)>> ELSE Append(int_str(n \div 10), DigitChar(n % 10))

\* SourceLocation.__str__
SourceLocation_str(line, col) ==
  CollectorFile \o <<":">> \o int_str(line) \o <<":">> \o int_str(col)

\* str(severity): the lower-case name of the severity
DiagnosticSeverity_str(severity) ==
  CASE severity = "ERROR" -> <<"e", "r", "r", "o", "r">>
    [] severity = "WARNING" -> <<"w", "a", "r", "n", "i", "n", "g">>
    [] severity = "INFO" -> <<"i", "n", "f", "o">>

\* Diagnostic.__str__: the location prefix is left out when there is none
Diagnostic_str(d) ==
  (IF d.line = 0 THEN <<>> ELSE SourceLocation_str(d.line, d.col) \o <<":", " ">>)
    \o DiagnosticSeverity_str(d.severity) \o <<":", " ">> \o d.message

\* "\n".join(str(d) for d in self._diagnostics)
format_all(ds) == JoinLines([i \in 1..Len(ds) |-> Diagnostic_str(ds[i])])

CallFormatAll ==
  /\ pc = "collector"
  /\ Query("format_all", format_all(diag))

NextCollector ==
  \/ CallError
  \/ CallWarning
  \/ CallInfo
  \/ CallHasErrors
  \/ CallGetAll
  \/ MutateSnapshot
  \/ CallFormatAll

SpecCollector == InitCollector /\ [][NextCollector]_vars

\* error() is among the recording calls made so far
ErrorCalled == \E i \in 1..Len(collector.calls) : collector.calls[i].kind = "error"

(***************************************************************************)
(* C12.  After any sequence of error, warning and info calls, has_errors() *)
(* is true iff one of the calls was error(): warning() and info() never    *)
(* make it true, and once it is true it stays true.                        *)
(***************************************************************************)
C12_HasErrorsIffErrorCalled ==
  /\ [](/\ has_errors(diag) <=> ErrorCalled
        /\ collector.op = "has_errors" => collector.returned = <<ErrorCalled>>)
  /\ [][/\ has_errors(diag) => has_errors(diag')
        /\ collector'.op \in {"warning", "info"} => (has_errors(diag') <=> has_errors(diag))]_vars

\* warning, info, error, and then has_errors() returned true
C12_Witness ==
  /\ Len(collector.calls) = 3
  /\ collector.calls[1].kind = "warning"
  /\ collector.calls[2].kind = "info"
  /\ collector.calls[3].kind = "error"
  /\ collector.op = "has_errors"
  /\ collector.returned = <<TRUE>>

\* the severity of the record a recording call makes
SeverityOf(kind) ==
  CASE kind = "error" -> "ERROR" [] kind = "warning" -> "WARNING" [] kind = "info" -> "INFO"

\* the records of a history of recording calls, in call order
RecordsOf(calls) ==
  [i \in 1..Len(calls) |->
     Diagnostic(SeverityOf(calls[i].kind), calls[i].args.message, <<>>,
                calls[i].args.line, calls[i].args.col)]

MaxDecorators == 2

MaxSkipLines == 3

\* `let r = region(G, 0, 8)`
RegionLine == <<"l", "e", "t", " ", "r", " ", "=", " ", "r", "e", "g", "i", "o", "n", "(", "G", ",", " ", "0", ",", " ", "8", ")">>

\* `buffer G : L2 (size=5)`
BufferDeclLine == <<"b", "u", "f", "f", "e", "r", " ", "G", " ", ":", " ", "L", "2", " ", "(", "s", "i", "z", "e", "=", "5", ")">>

\* type attributes without a quant clause
PlainTypeAttrs ==
  {
    <<"e", "l", "e", "m", "=", "i", "8", ",", " ", "s", "h", "a", "p", "e", "=", "[", "2", "]">>,
    <<"e", "l", "e", "m", "=", "i", "8", ",", " ", "s", "h", "a", "p", "e", "=", "[", "2", "]", ",", " ", "l", "a", "y", "o", "u", "t", "=", "N", "C", "H", "W">>,
    <<"e", "l", "e", "m", "=", "i", "8", ",", " ", "s", "h", "a", "p", "e", "=", "[", "2", "]", ",", " ", "s", "t", "r", "i", "d", "e", "s", "=", "[", "1", "]">>
  }

\* type attributes with a quant clause of a known descriptor, with and
\* without a layout or strides clause before it
QuantTypeAttrs ==
  {
    <<"e", "l", "e", "m", "=", "i", "8", ",", " ", "s", "h", "a", "p", "e", "=", "[", "2", "]", ",", " ", "q", "u", "a", "n", "t", "=", "p", "e", "r", "_", "t", "e", "n", "s", "o", "r", "(", "s", "c", "a", "l", "e", "=", "1", ",", " ", "z", "e", "r", "o", "_", "p", "o", "i", "n", "t", "=", "0", ")">>,
    <<"e", "l", "e", "m", "=", "i", "8", ",", " ", "s", "h", "a", "p", "e", "=", "[", "2", "]", ",", " ", "l", "a", "y", "o", "u", "t", "=", "N", "C", "H", "W", ",", " ", "q", "u", "a", "n", "t", "=", "p", "e", "r", "_", "t", "e", "n", "s", "o", "r", "(", "s", "c", "a", "l", "e", "=", "1", ",", " ", "z", "e", "r", "o", "_", "p", "o", "i", "n", "t", "=", "0", ")">>,
    <<"e", "l", "e", "m", "=", "i", "8", ",", " ", "s", "h", "a", "p", "e", "=", "[", "2", "]", ",", " ", "s", "t", "r", "i", "d", "e", "s", "=", "[", "1", "]", ",", " ", "q", "u", "a", "n", "t", "=", "p", "e", "r", "_", "t", "e", "n", "s", "o", "r", "(", "s", "c", "a", "l", "e", "=", "1", ",", " ", "z", "e", "r", "o", "_", "p", "o", "i", "n", "t", "=", "0", ")">>,
    <<"e", "l", "e", "m", "=", "i", "8", ",", " ", "s", "h", "a", "p", "e", "=", "[", "2", "]", ",", " ", "l", "a", "y", "o", "u", "t", "=", "N", "C", "H", "W", ",", " ", "q", "u", "a", "n", "t", "=", "p", "e", "r", "_", "c", "h", "a", "n", "n", "e", "l", "(", "a", "x", "i", "s", "=", "0", ",", " ", "s", "c", "a", "l", "e", "s", "=", "[", "1", "]", ",", " ", "z", "e", "r", "o", "_", "p", "o", "i", "n", "t", "s", "=", "[", "0", "]", ")">>
  }

\* type attributes with a quant clause of the unknown descriptor `bogus`
UnknownQuantTypeAttrs ==
  {
    <<"e", "l", "e", "m", "=", "i", "8", ",", " ", "s", "h", "a", "p", "e", "=", "[", "2", "]", ",", " ", "q", "u", "a", "n", "t", "=", "b", "o", "g", "u", "s", "(", "x", "=", "1", ")">>,
    <<"e", "l", "e", "m", "=", "i", "8", ",", " ", "s", "h", "a", "p", "e", "=", "[", "2", "]", ",", " ", "l", "a", "y", "o", "u", "t", "=", "N", "C", "H", "W", ",", " ", "q", "u", "a", "n", "t", "=", "b", "o", "g", "u", "s", "(", "x", "=", "1", ")">>,
    <<"e", "l", "e", "m", "=", "i", "8", ",", " ", "s", "h", "a", "p", "e", "=", "[", "2", "]", ",", " ", "s", "t", "r", "i", "d", "e", "s", "=", "[", "1", "]", ",", " ", "q", "u", "a", "n", "t", "=", "b", "o", "g", "u", "s", "(", "x", "=", "1", ")">>
  }

TypeAttrTexts == PlainTypeAttrs \cup QuantTypeAttrs \cup UnknownQuantTypeAttrs

\* the decorators of the continuation lines
ContinuationDecorators ==
  {
    <<"@", "a">>,
    <<"@", "r", "e", "s", "o", "u", "r", "c", "e", "(", "N", "M", "U", "[", "0", "]", ")">>
  }

\* decorators: bare, empty, a unit with and without an index, a unit in a
\* longer argument list, and names that are no unit
DecoratorTexts ==
  {
    <<"@", "a">>,
    <<"@", "b", "(", ")">>,
    <<"@", "r", "e", "s", "o", "u", "r", "c", "e", "(", "N", "M", "U", "[", "0", "]", ")">>,
    <<"@", "r", "e", "s", "o", "u", "r", "c", "e", "(", "D", "M", "A", ")">>,
    <<"@", "m", "(", "S", "E", "Q", "[", "1", " ", "+", " ", "2", "]", ")">>,
    <<"@", "m", "(", "s", "D", "M", "A", "[", "(", "0", ")", "]", ")">>,
    <<"@", "m", "(", "N", "M", "U", ",", " ", "1", ")">>,
    <<"@", "m", "(", "x", ",", " ", "1", ")">>,
    <<"@", "m", "(", "W", "D", "M", "[", "0", "]", ",", " ", "2", ")">>,
    <<"@", "m", "(", "n", "m", "u", "[", "0", "]", ")">>
  }

\* declarations, and lines whose leading token starts no declaration
SkipLines ==
  {
    <<"c", "o", "n", "s", "t", " ", "A", " ", "=", " ", "1">>,
    <<"l", "e", "t", " ", "x", " ", "=", " ", "2">>,
    <<"b", "u", "f", "f", "e", "r", " ", "G", " ", ":", " ", "L", "2", " ", "(", "s", "i", "z", "e", "=", "5", ")">>,
    <<"s", "t", "o", "r", "e", " ", "x">>,
    <<"d", "o", " ", "l", "e", "t", " ", "x", " ", "=", " ", "2">>,
    <<"@", "a">>,
    <<"e", "l", "e", "m", "=", "i", "8", ",", " ", "s", "h", "a", "p", "e", "=", "[", "2", "]">>
  }

\* float literals whose exponent has no digit, and one that has
FloatSources ==
  {
    <<"c", "o", "n", "s", "t", " ", "A", " ", "=", " ", "1", ".", "5", "e">>,
    <<"l", "e", "t", " ", "x", " ", "=", " ", "1", ".", "5", "E", "+">>,
    <<"s", "t", "o", "r", "e", " ", "1", ".", "5", "e", "-">>,
    <<"c", "o", "n", "s", "t", " ", "A", " ", "=", " ", "1", ".", "5", "e", "3">>
  }

Separators == {<<" ">>, <<"\n">>}

\* nothing, or the type attributes on the same or on the next line
TypeAttrParts(texts) == {<<>>} \cup {sep \o a : sep \in Separators, a \in texts}

RECURSIVE DecoratorParts(_)
\* up to n decorators, each on the same or on the next line
DecoratorParts(n) ==
  IF n = 0 THEN {<<>>}
  ELSE DecoratorParts(n - 1)
         \cup {(p \o sep) \o d : p \in DecoratorParts(n - 1), sep \in Separators,
                                 d \in ContinuationDecorators}

RegionSources ==
  {(RegionLine \o a) \o d : a \in TypeAttrParts(TypeAttrTexts),
                            d \in DecoratorParts(MaxDecorators)}

DecoratorSources ==
  {(BufferDeclLine \o <<" ">>) \o d : d \in DecoratorTexts}
    \cup {(RegionLine \o <<" ">>) \o d : d \in DecoratorTexts}

SkipSources == {JoinLines(ls) : ls \in SeqsUpTo(SkipLines, MaxSkipLines)}

DeclSources == RegionSources \cup DecoratorSources \cup SkipSources \cup FloatSources

InitDecl ==
  /\ source \in DeclSources
  /\ pc = "tokenize"
  /\ lexer = LexerInit
  /\ diag = <<>>
  /\ parser = NoParser
  /\ outcome = Running
  /\ abandoned = <<>>
  /\ evaluation = NoEvaluation
  /\ runner = NoRunner
  /\ collector = NoCollector

SpecDecl == InitDecl /\ [][Next]_vars

\* the call of parse ended as the operator parse says: a sanity link between
\* the step-wise and the one-shot reading of the parser
ParseStepsAgree ==
  pc = "done" =>
    LET r == parse(source)
    IN  /\ diag = r.P.diag
        /\ IF outcome.kind = "raised"
           THEN r.exc = outcome.exc /\ r.err = outcome.err
           ELSE r.exc = "" /\ r.node = outcome.program

RECURSIVE Content(_)
\* the nodes of a list without their source locations
ContentAll(nodes) == [i \in DOMAIN nodes |-> Content(nodes[i])]

\* an optional list of nodes without their source locations
ContentOptional(opt) == IF opt.some THEN Some(ContentAll(opt.v)) ELSE opt

\* a node without the source locations in it
Content(n) ==
  IF n.type = "None" THEN n
  ELSE IF n.type = "BinaryOp"
  THEN [n EXCEPT !.left = Content(@), !.right = Content(@), !.location = NoLocation]
  ELSE IF n.type = "UnaryOp"
  THEN [n EXCEPT !.operand = Content(@), !.location = NoLocation]
  ELSE IF n.type = "ParenExpr"
  THEN [n EXCEPT !.expr = Content(@), !.location = NoLocation]
  ELSE IF n.type = "ArrayLiteral"
  THEN [n EXCEPT !.elements = ContentAll(@), !.location = NoLocation]
  ELSE IF n.type = "DecoratorNode"
  THEN [n EXCEPT !.args = ContentOptional(@), !.location = NoLocation]
  ELSE IF n.type = "PerTensorQuantNode"
  THEN [n EXCEPT !.scale = Content(@), !.zero_point = Content(@),
                 !.location = NoLocation]
  ELSE IF n.type = "PerChannelQuantNode"
  THEN [n EXCEPT !.axis = Content(@), !.scales = ContentAll(@),
                 !.zero_points = ContentAll(@), !.location = NoLocation]
  ELSE IF n.type = "PerGroupQuantNode"
  THEN [n EXCEPT !.axis = Content(@), !.group_size = Content(@),
                 !.scales = ContentAll(@), !.zero_points = ContentAll(@),
                 !.location = NoLocation]
  ELSE IF n.type = "TypeAttrsNode"
  THEN [n EXCEPT !.shape = ContentAll(@), !.strides = ContentOptional(@),
                 !.quant = Content(@), !.location = NoLocation]
  ELSE IF n.type = "RegionDeclNode"
  THEN [n EXCEPT !.offset = Content(@), !.extent = Content(@),
                 !.type_attrs = Content(@), !.decorators = ContentAll(@),
                 !.location = NoLocation]
  ELSE [n EXCEPT !.location = NoLocation]

\* the same tokens written on a single line
SingleLine(src) == [i \in DOMAIN src |-> IF src[i] = "\n" THEN " " ELSE src[i]]

\* region declarations with well-formed type attributes and decorators,
\* each on the line of the declaration or on a line of its own
WellFormedRegionSources ==
  {(RegionLine \o a) \o d : a \in TypeAttrParts(PlainTypeAttrs \cup QuantTypeAttrs),
                            d \in DecoratorParts(MaxDecorators)}

(***************************************************************************)
(* C14.  A region declaration whose type attributes and decorators are     *)
(* each on a following line of their own parses to the same                *)
(* RegionDeclNode content, source locations aside, as the same tokens on   *)
(* a single line, with no diagnostics in either form.                      *)
(***************************************************************************)
C14_ContinuationLinesParseAlike ==
  (pc = "done" /\ source \in WellFormedRegionSources) =>
    LET one == parse(SingleLine(source))
    IN  /\ outcome.kind = "returned"
        /\ one.exc = ""
        /\ diag = <<>>
        /\ one.P.diag = <<>>
        /\ Len(outcome.program.statements) = 1
        /\ outcome.program.statements[1].type = "RegionDeclNode"
        /\ ContentAll(outcome.program.statements) = ContentAll(one.node.statements)

\* the declaration, its type attributes and two decorators, each on a line
\* of its own, have been parsed into one RegionDeclNode
C14_Witness ==
  /\ ParseReturned
  /\ source \in WellFormedRegionSources
  /\ Len(SplitLines(source)) = 4
  /\ Len(outcome.program.statements) = 1
  /\ outcome.program.statements[1].type_attrs.type = "TypeAttrsNode"
  /\ outcome.program.statements[1].type_attrs.location.line = 2
  /\ outcome.program.statements[1].type_attrs.layout.some
  /\ Len(outcome.program.statements[1].decorators) = 2
  /\ outcome.program.statements[1].decorators[2].location.line = 4

\* region declarations whose type attributes end in a known quant descriptor
QuantRegionSources ==
  {(RegionLine \o a) \o d : a \in TypeAttrParts(QuantTypeAttrs) \ {<<>>},
                            d \in DecoratorParts(MaxDecorators)}

\* the body loop has parsed the declaration of the source's first line
FirstDeclarationParsed == pc = "_parse_body" /\ Len(parser.stmts) = 1

(***************************************************************************)
(* C15.  The quant clause of a region's type attributes is parsed into     *)
(* TypeAttrsNode.quant whether or not a layout or strides clause precedes  *)
(* it: once the declaration is parsed its quant is not None and the        *)
(* parser stands at the end of the declaration's tokens (a NEWLINE or      *)
(* EOF), none of the clause's tokens being left for the body loop.         *)
(***************************************************************************)
C15_QuantClauseIndependent ==
  (FirstDeclarationParsed /\ source \in QuantRegionSources) =>
    /\ parser.stmts[1].type = "RegionDeclNode"
    /\ parser.stmts[1].type_attrs.type = "TypeAttrsNode"
    /\ parser.stmts[1].type_attrs.quant.type # "None"
    /\ P_peek(parser.tokens, PState).kind \in {"NEWLINE", "EOF"}

\* region declarations whose type attributes end in an unknown quant descriptor
UnknownQuantRegionSources ==
  {(RegionLine \o a) \o d : a \in TypeAttrParts(UnknownQuantTypeAttrs) \ {<<>>},
                            d \in DecoratorParts(MaxDecorators)}

(***************************************************************************)
(* C16.  When a region's type attributes contain quant=NAME(...) with a    *)
(* NAME that is not per_tensor, per_channel or per_group, the parse        *)
(* returns with an Error diagnostic recorded, whichever optional clauses   *)
(* precede the quant clause.                                               *)
(***************************************************************************)
C16_UnknownQuantIsAnError ==
  (pc = "done" /\ source \in UnknownQuantRegionSources) =>
    /\ outcome.kind = "returned"
    /\ has_errors(diag)

\* the args the decorator starting at token i (its `@`) is to have
UnitDecoratorArgs(toks, i) ==
  IF toks[i + 2].kind # "LPAREN" THEN Nothing
  ELSE IF toks[i + 3].kind = "RPAREN" THEN Some(<<>>)
  ELSE IF toks[i + 4].kind = "LBRACKET"
  THEN Some(<<Identifier(toks[i + 3].lexeme, TokLoc(toks[i + 3])),
              Parse("parse_expression", toks, [pos |-> i + 4, diag |-> <<>>]).node>>)
  ELSE Some(<<Identifier(toks[i + 3].lexeme, TokLoc(toks[i + 3]))>>)

\* the decorator at token i is bare, has empty parentheses, or has a first
\* argument token that is one of the unit names
UnitDecoratorAt(toks, i) ==
  /\ toks[i].kind = "AT"
  /\ toks[i + 1].kind = "IDENT"
  /\ \/ toks[i + 2].kind # "LPAREN"
     \/ toks[i + 3].kind = "RPAREN"
     \/ toks[i + 3].kind = "IDENT" /\ toks[i + 3].lexeme \in ResourceUnits

\* the decorators of the parsed declarations
ParsedDecorators ==
  UNION {{outcome.program.statements[k].decorators[j] :
            j \in 1..Len(outcome.program.statements[k].decorators)} :
         k \in 1..Len(outcome.program.statements)}

(***************************************************************************)
(* C17.  A decorator whose first argument token is one of the unit names   *)
(* has the args (Identifier(unit), index-expr) when `[index-expr]`         *)
(* follows the unit and the args (Identifier(unit),) when no `[` follows;  *)
(* a bare @name has args None and @name() has an empty args tuple.         *)
(***************************************************************************)
C17_UnitDecoratorArgs ==
  (pc = "done" /\ source \in DecoratorSources) =>
    /\ outcome.kind = "returned"
    /\ \A i \in 1..Len(parser.tokens) :
         UnitDecoratorAt(parser.tokens, i) =>
           \E d \in ParsedDecorators :
             /\ d.location = TokLoc(parser.tokens[i])
             /\ d.name = parser.tokens[i + 1].lexeme
             /\ d.args = UnitDecoratorArgs(parser.tokens, i)

(***************************************************************************)
(* Expressions: `const X = <expr>` for every expression text built from    *)
(* the operand a with up to MaxOperators prefix minus signs, parenthesised *)
(* groups and binary operators, as sources of parse.                       *)
(***************************************************************************)
MaxOperators == 3

\* `const X = `
ConstPrefix == <<"c", "o", "n", "s", "t", " ", "X", " ", "=", " ">>

BinaryTexts == {<<"+">>, <<"-">>, <<"*">>, <<"/">>, <<" ", "m", "o", "d", " ">>}

RECURSIVE ExprTexts(_)
\* the expression texts with exactly n operators and groups
ExprTexts(n) ==
  IF n = 0 THEN {<<"a">>}
  ELSE {<<"-">> \o e : e \in ExprTexts(n - 1)}
         \cup {(<<"(">> \o e) \o <<")">> : e \in ExprTexts(n - 1)}
         \cup UNION {{(l \o op) \o r : l \in ExprTexts(i), op \in BinaryTexts,
                                       r \in ExprTexts(n - 1 - i)} : i \in 0..(n - 1)}

ExprSources == {ConstPrefix \o e : e \in UNION {ExprTexts(n) : n \in 0..MaxOperators}}

InitExpr ==
  /\ source \in ExprSources
  /\ pc = "tokenize"
  /\ lexer = LexerInit
  /\ diag = <<>>
  /\ parser = NoParser
  /\ outcome = Running
  /\ abandoned = <<>>
  /\ evaluation = NoEvaluation
  /\ runner = NoRunner
  /\ collector = NoCollector

SpecExpr == InitExpr /\ [][Next]_vars

\* a token of the source, as lexeme and location
Lexeme(lexeme, location) == [lexeme |-> lexeme, location |-> location]

RECURSIVE Flatten(_)
\* the tokens an expression tree stands for, in source order
Flatten(e) ==
  IF e.type = "BinaryOp"
  THEN (Flatten(e.left) \o <<Lexeme(e.op, e.location)>>) \o Flatten(e.right)
  ELSE IF e.type = "UnaryOp"
  THEN <<Lexeme(e.op, e.location)>> \o Flatten(e.operand)
  ELSE IF e.type = "ParenExpr"
  THEN <<Lexeme(<<"(">>, e.location)>> \o Flatten(e.expr)
  ELSE IF e.type = "Identifier"
  THEN <<Lexeme(e.name, e.location)>>
  ELSE <<>>

\* the tokens of the expression of `const X = <expr>`, closing parentheses
\* left out (a ParenExpr keeps the location of its opening one only)
ExprLexemes(toks) ==
  LET kept == SelectSeq(SubSeq(toks, 4, Len(toks) - 1), LAMBDA t : t.kind # "RPAREN")
  IN  [i \in DOMAIN kept |-> Lexeme(kept[i].lexeme, TokLoc(kept[i]))]

Additive == {<<"+">>, <<"-">>}

Multiplicative == {<<"*">>, <<"/">>, <<"m", "o", "d">>}

RECURSIVE Precedence(_)
\* every operator of the tree has operands that bind at least as tightly as
\* it does on the left and more tightly on the right
Precedence(e) ==
  IF e.type = "BinaryOp"
  THEN /\ e.op \in Additive \cup Multiplicative
       /\ e.right.type = "BinaryOp" => (e.op \in Additive /\ e.right.op \in Multiplicative)
       /\ e.left.type = "BinaryOp" => (e.op \in Additive \/ e.left.op \in Multiplicative)
       /\ Precedence(e.left)
       /\ Precedence(e.right)
  ELSE IF e.type = "UnaryOp"
  THEN /\ e.op = <<"-">>
       /\ e.operand.type # "BinaryOp"
       /\ Precedence(e.operand)
  ELSE IF e.type = "ParenExpr"
  THEN Precedence(e.expr)
  ELSE e.type = "Identifier"

\* the parse of an expression source has ended
ExprParsed == pc = "done" /\ source \in ExprSources

(***************************************************************************)
(* C18.  parse_expression builds the tree whose tokens in order are the    *)
(* source's tokens, in which `*`, `/` and `mod` bind tighter than binary   *)
(* `+` and `-`, operators of equal precedence associate to the left,       *)
(* prefix minus binds tighter than every binary operator, and every        *)
(* parenthesised group is a ParenExpr node around a full expression.       *)
(***************************************************************************)
C18_PrecedenceAndAssociativity ==
  ExprParsed =>
    /\ outcome.kind = "returned"
    /\ diag = <<>>
    /\ Len(outcome.program.statements) = 1
    /\ outcome.program.statements[1].type = "ConstDeclNode"
    /\ Flatten(outcome.program.statements[1].value) = ExprLexemes(parser.tokens)
    /\ Precedence(outcome.program.statements[1].value)

\* `const X = a-a-a` has been parsed into BinaryOp('-', BinaryOp('-', a, a), a)
C18_Witness ==
  /\ ExprParsed
  /\ source = ConstPrefix \o <<"a", "-", "a", "-", "a">>
  /\ outcome.kind = "returned"
  /\ Len(outcome.program.statements) = 1
  /\ outcome.program.statements[1].value.type = "BinaryOp"
  /\ outcome.program.statements[1].value.op = <<"-">>
  /\ outcome.program.statements[1].value.left.type = "BinaryOp"
  /\ outcome.program.statements[1].value.left.op = <<"-">>
  /\ outcome.program.statements[1].value.right.type = "Identifier"

\* the lines of a source whose leading token starts a declaration
KnownLines == {ConstLine, BufferLine, LetLine}

\* line k is a decorator line that continues the buffer declaration before it
DecoratorContinuation(lines, k) ==
  /\ lines[k] = <<"@", "a">>
  /\ \E j \in 1..(k - 1) :
       /\ lines[j] = BufferLine
       /\ \A m \in (j + 1)..(k - 1) : lines[m] = <<"@", "a">>

\* line k starts no declaration and continues none
UnknownLine(lines, k) == lines[k] \notin KnownLines /\ ~DecoratorContinuation(lines, k)

\* the node type of the declaration a known line holds
DeclarationType(line) ==
  IF line = ConstLine THEN "ConstDeclNode"
  ELSE IF line = BufferLine THEN "BufferDeclNode"
  ELSE "LetDeclNode"

(***************************************************************************)
(* C19.  A body line whose leading token is not const, buffer, let, loop   *)
(* or endloop, and which does not continue the declaration before it, is   *)
(* skipped up to the end of the line: no statement starts on it and no     *)
(* diagnostic is recorded, and each known declaration on the lines before  *)
(* and after it is parsed and returned, in source order.                   *)
(***************************************************************************)
C19_UnknownLinesSkipped ==
  (pc = "done" /\ source \in SkipSources) =>
    /\ outcome.kind = "returned"
    /\ diag = <<>>
    /\ \A k \in 1..Len(SplitLines(source)) :
         /\ UnknownLine(SplitLines(source), k) => StatementsAt(k) = {}
         /\ SplitLines(source)[k] \in KnownLines =>
              \E s \in 1..Len(outcome.program.statements) :
                /\ StatementsAt(k) = {s}
                /\ outcome.program.statements[s].type =
                     DeclarationType(SplitLines(source)[k])
    /\ \A s \in 1..(Len(outcome.program.statements) - 1) :
         outcome.program.statements[s].location.line
           < outcome.program.statements[s + 1].location.line

\* a const, a line that starts with an unknown token and holds a let, and a
\* buffer have been parsed into the const and the buffer
C19_Witness ==
  /\ ParseReturned
  /\ source = JoinLines(<<ConstLine,
                          <<"d", "o", " ", "l", "e", "t", " ", "x", " ", "=", " ", "2">>,
                          BufferLine>>)
  /\ Len(outcome.program.statements) = 2
  /\ outcome.program.statements[1].type = "ConstDeclNode"
  /\ outcome.program.statements[2].type = "BufferDeclNode"
  /\ outcome.program.statements[2].location.line = 3

\* the float literal of a source of FloatSources: its text from the first
\* digit to the end
FloatText(src) ==
  SubSeq(src, CHOOSE i \in 1..Len(src) :
                /\ isdigit(src[i])
                /\ \A j \in 1..(i - 1) : ~isdigit(src[j]),
         Len(src))

\* the exponent of the source's float literal has no digit
ExponentWithoutDigits(src) == src \in FloatSources /\ ~isdigit(src[Len(src)])

(***************************************************************************)
(* C20.  A float literal whose exponent marker, with or without a sign,    *)
(* is not followed by a digit yields an Error diagnostic and a FLOAT_LIT   *)
(* token of the characters consumed so far, and the parse of a program     *)
(* that contains it still returns a ProgramNode and the collector.         *)
(***************************************************************************)
C20_BadExponentDoesNotAbort ==
  (pc = "done" /\ ExponentWithoutDigits(source)) =>
    /\ \E i \in 1..Len(parser.tokens) :
         /\ parser.tokens[i].kind = "FLOAT_LIT"
         /\ parser.tokens[i].lexeme = FloatText(source)
    /\ has_errors(diag)
    /\ outcome.kind = "returned"

RECURSIVE HasFloatLiteral(_)
\* a FloatLiteral node occurs in the expression tree
HasFloatLiteral(expr) ==
  IF expr.type = "FloatLiteral" THEN TRUE
  ELSE IF expr.type = "BinaryOp"
  THEN HasFloatLiteral(expr.left) \/ HasFloatLiteral(expr.right)
  ELSE IF expr.type = "UnaryOp" THEN HasFloatLiteral(expr.operand)
  ELSE IF expr.type = "ParenExpr" THEN HasFloatLiteral(expr.expr)
  ELSE FALSE

(***************************************************************************)
(* C21.  evaluate_const_expr returns no integer for an expression tree     *)
(* that contains a FloatLiteral anywhere: the evaluation fails with a      *)
(* ConstEvalError, and a FloatLiteral evaluated directly fails with        *)
(* 'Float literals not allowed in constant expressions' at the literal's   *)
(* location.                                                               *)
(***************************************************************************)
C21_FloatLiteralNeverEvaluates ==
  (Evaluated /\ HasFloatLiteral(evaluation.expr)) =>
    /\ ~evaluation.result.ok
    /\ evaluation.result.exc = "ConstEvalError"
    /\ evaluation.expr.type = "FloatLiteral" =>
         evaluation.result =
           ConstEvalError("Float literals not allowed in constant expressions", <<>>,
                          evaluation.expr.location)

(***************************************************************************)
(* Lexemes: every keyword, every single-character token, and every text    *)
(* of up to MaxLexChars characters over an alphabet of a digit, a dot, an  *)
(* exponent marker, a sign, a quote, a backslash, letters, an underscore   *)
(* and a space, as sources of Lexer.tokenize.                              *)
(***************************************************************************)
MaxLexChars == 4

LexAlphabet == {"1", ".", "e", "+", "\"", "\\", "n", "_", " "}

LexemeSources ==
  SeqsUpTo(LexAlphabet, MaxLexChars)
    \cup {k[1] : k \in KEYWORDS}
    \cup {<<c>> : c \in DOMAIN _SINGLE_CHAR}

InitLexeme ==
  /\ source \in LexemeSources
  /\ pc = "tokenize"
  /\ lexer = LexerInit
  /\ diag = <<>>
  /\ parser = NoParser
  /\ outcome = Running
  /\ abandoned = <<>>
  /\ evaluation = NoEvaluation
  /\ runner = NoRunner
  /\ collector = NoCollector

\* Lexer(source).tokenize() alone
NextLexeme ==
  \/ Tokenize
  \/ TokenizeReturn

SpecLexeme == InitLexeme /\ [][NextLexeme]_vars

\* the kinds and lexemes of a token list
KindsAndLexemes(toks) == [i \in DOMAIN toks |-> <<toks[i].kind, toks[i].lexeme>>]

\* the last token of the list
LastToken(toks) == toks[Len(toks)]

(***************************************************************************)
(* C22.  Every token other than NEWLINE and EOF that an iteration of       *)
(* tokenize emits without a diagnostic, from source text without a         *)
(* backslash, has a lexeme that tokenizes on its own to exactly one token  *)
(* of the same kind and lexeme followed by EOF, without a diagnostic.      *)
(***************************************************************************)
C22_LexemeRoundTrip ==
  [][(/\ pc = "tokenize"
      /\ pc' = "tokenize"
      /\ Len(lexer'.tokens) = Len(lexer.tokens) + 1
      /\ diag' = diag
      /\ LastToken(lexer'.tokens).kind # "NEWLINE"
      /\ \A i \in (lexer.pos + 1)..lexer'.pos : source[i] # "\\")
       => /\ KindsAndLexemes(tokenize(LastToken(lexer'.tokens).lexeme).tokens)
               = <<<<LastToken(lexer'.tokens).kind, LastToken(lexer'.tokens).lexeme>>,
                   <<"EOF", <<>>>>>>
          /\ tokenize(LastToken(lexer'.tokens).lexeme).errs = <<>>]_vars

\* a closed string literal and the integer literal behind it have been
\* emitted and the lexer reported nothing
C22_Witness ==
  /\ pc = "parse_program"
  /\ diag = <<>>
  /\ Len(lexer.tokens) = 3
  /\ lexer.tokens[1].kind = "STRING_LIT"
  /\ lexer.tokens[1].lexeme = <<"\"", "_", "\"">>
  /\ lexer.tokens[2].kind = "INT_LIT"

\* the positions in the parsed program of the declarations of a type and name
DeclarationsOf(type, name) ==
  {i \in 1..Len(outcome.program.statements) :
     /\ outcome.program.statements[i].type = type
     /\ outcome.program.statements[i].name = name}

\* the names the parsed program declares both as a const and as a buffer
ConflictingNames ==
  {outcome.program.statements[i].name : i \in 1..Len(outcome.program.statements)}
    \cap {name \in {outcome.program.statements[i].name :
                      i \in 1..Len(outcome.program.statements)} :
            /\ DeclarationsOf("ConstDeclNode", name) # {}
            /\ DeclarationsOf("BufferDeclNode", name) # {}}

\* the least element of a non-empty set of integers
MinOf(S) == CHOOSE i \in S : \A j \in S : i <= j

\* the message validate is to report for a name declared twice
NameConflict(name) ==
  IF MinOf(DeclarationsOf("BufferDeclNode", name))
       < MinOf(DeclarationsOf("ConstDeclNode", name))
  THEN RunnerError("Name conflict - already declared as buffer", name)
  ELSE RunnerError("Name conflict - already declared as const", name)

\* validate is over for a program that parsed without errors
ValidatedParsed ==
  /\ runner.pc = "done"
  /\ pc = "done"
  /\ outcome.kind = "returned"
  /\ ~has_errors(diag)

\* the two name conflict messages for a name
NameConflicts(name) ==
  {RunnerError("Name conflict - already declared as buffer", name),
   RunnerError("Name conflict - already declared as const", name)}

(***************************************************************************)
(* C23.  When a program that parses without errors declares a const and a  *)
(* buffer of the same name, validate returns valid=False with a 'Name      *)
(* conflict' diagnostic for the name; when the name has one const and one  *)
(* buffer declaration it is 'already declared as buffer' if the buffer     *)
(* comes first and 'already declared as const' if the const comes first.   *)
(***************************************************************************)
C23_NameConflictReported ==
  ValidatedParsed =>
    \A name \in ConflictingNames :
      /\ "valid" \in DOMAIN runner.result
      /\ ~runner.result.valid
      /\ \E k \in 1..Len(runner.result.diagnostics) :
           runner.result.diagnostics[k] \in NameConflicts(name)
      /\ (/\ Cardinality(DeclarationsOf("ConstDeclNode", name)) = 1
          /\ Cardinality(DeclarationsOf("BufferDeclNode", name)) = 1)
           => \E k \in 1..Len(runner.result.diagnostics) :
                runner.result.diagnostics[k] = NameConflict(name)

\* the Error records of the collector
ErrorRecords == {i \in 1..Len(diag) : diag[i].severity = "ERROR"}

\* this step recorded exactly one more diagnostic, an Error at the location
\* the ParseError err carries
ReportedAt(err) ==
  /\ Len(diag') = Len(diag) + 1
  /\ SubSeq(diag', 1, Len(diag)) = diag
  /\ diag'[Len(diag')].severity = "ERROR"
  /\ diag'[Len(diag')].line = err.line
  /\ diag'[Len(diag')].col = err.col

(***************************************************************************)
(* C24.  Every ParseError raised in the parser comes with exactly one      *)
(* Error diagnostic recorded at the location the ParseError carries, both  *)
(* when the statement loop catches it and abandons the statement and when  *)
(* it escapes from a header; so when parse returns with statements         *)
(* abandoned, has_errors() is true and the collector holds at least as     *)
(* many Errors as statements were abandoned.                               *)
(***************************************************************************)
C24_ParseErrorsAreReported ==
  /\ [](ParseReturned =>
          /\ abandoned # <<>> => has_errors(diag)
          /\ Cardinality(ErrorRecords) >= Len(abandoned))
  /\ [][/\ Len(abandoned') = Len(abandoned) + 1 =>
             ReportedAt(abandoned'[Len(abandoned')].err)
        /\ (outcome.kind = "running" /\ outcome'.kind = "raised"
              /\ outcome'.exc = "ParseError") => ReportedAt(outcome'.err)]_vars

\* parse has returned a program with one statement kept and another
\* abandoned after a ParseError
C24_Witness ==
  /\ ParseReturned
  /\ Len(abandoned) = 1
  /\ Len(outcome.program.statements) = 1
  /\ Cardinality(ErrorRecords) = 1
  /\ diag[1].line = abandoned[1].err.line
  /\ diag[1].col = abandoned[1].err.col

\* the line of the character after the first p characters of src
LineAfter(src, p) == 1 + Cardinality({i \in 1..p : src[i] = "\n"})

\* the column of the character after the first p characters of src
ColumnAfter(src, p) == 1 + (p - MaxOf({0} \cup {i \in 1..p : src[i] = "\n"}))

\* token a starts before token b
StartsBefore(a, b) == a.line < b.line \/ (a.line = b.line /\ a.col < b.col)

(***************************************************************************)
(* C25.  Each token carries the 1-indexed line and column of its first     *)
(* source character (line: 1 plus the line breaks before it, column: 1     *)
(* plus the characters since the last line break) and EOF the position     *)
(* just past the last character; token locations are strictly increasing  *)
(* between tokens other than EOF and non-decreasing up to EOF.             *)
(***************************************************************************)
C25_TokenLocations ==
  /\ [](\A i \in 1..(Len(lexer.tokens) - 1) :
          \/ StartsBefore(lexer.tokens[i], lexer.tokens[i + 1])
          \/ /\ lexer.tokens[i + 1].kind = "EOF"
             /\ lexer.tokens[i].line = lexer.tokens[i + 1].line
             /\ lexer.tokens[i].col = lexer.tokens[i + 1].col)
  /\ [][(pc = "tokenize" /\ Len(lexer'.tokens) = Len(lexer.tokens) + 1) =>
          /\ SubSeq(lexer'.tokens, 1, Len(lexer.tokens)) = lexer.tokens
          /\ LastToken(lexer'.tokens).line
               = LineAfter(source, IF pc' = "tokenize" THEN lexer.pos ELSE Len(source))
          /\ LastToken(lexer'.tokens).col
               = ColumnAfter(source, IF pc' = "tokenize" THEN lexer.pos ELSE Len(source))
          /\ (pc' # "tokenize") = (LastToken(lexer'.tokens).kind = "EOF")]_vars

\* a token that starts on the second line, past its first column, has been
\* emitted
C25_Witness ==
  /\ pc = "parse_program"
  /\ \E i \in 1..Len(lexer.tokens) :
       /\ lexer.tokens[i].kind # "EOF"
       /\ lexer.tokens[i].line = 2
       /\ lexer.tokens[i].col > 1

\* the tokens of the list that start on the given line
TokensAt(toks, line) == {i \in 1..Len(toks) : toks[i].line = line}

(***************************************************************************)
(* C26.  Every source line break that follows at least one emitted token   *)
(* on its line is represented by a NEWLINE token of that line, also when   *)
(* the line break cuts off an unterminated string literal: the tokens of   *)
(* the following line are separated from the STRING_LIT by a NEWLINE.      *)
(***************************************************************************)
C26_LineBreaksBecomeNewlines ==
  pc # "tokenize" =>
    \A line \in 1..(Len(SplitLines(source)) - 1) :
      (\E i \in TokensAt(lexer.tokens, line) :
         lexer.tokens[i].kind \notin {"NEWLINE", "EOF"})
        => \E i \in TokensAt(lexer.tokens, line) : lexer.tokens[i].kind = "NEWLINE"

\* the number of source lines the statement loop has gone through: the line
\* of the last token it consumed
LinesParsed == IF parser.pos = 0 THEN 0 ELSE parser.tokens[parser.pos].line

\* the source is made of loop, endloop, const, let and buffer lines
LoopSource == \A j \in 1..Len(SplitLines(source)) :
                SplitLines(source)[j] \in LoopLines \cup {BufferLine}

EofIndex == Len(parser.tokens) - 1

\* the cursor states Parser._pos can be in on the tokens of the parser
CursorStates == {[PState EXCEPT !.pos = p] : p \in 0..EofIndex}

\* the look-ahead offsets the parser uses, and the ones just past the list
PeekOffsets == 0..3

\* C28: on a token list that ends with EOF the cursor stays between 0 and the
\* index of the EOF token and never decreases from one step of the parse to
\* the next, _advance leaves a cursor on EOF where it is and moves any other
\* cursor forward by one token, and _peek, _peek_ahead and _peek_past_newlines
\* answer from inside the token list at every cursor position
C28_CursorWithinTokens ==
  /\ [](parser.tokens # <<>> =>
          /\ parser.tokens[Len(parser.tokens)].kind = "EOF"
          /\ parser.pos \in 0..EofIndex
          /\ \A P \in CursorStates :
               /\ P_advance(parser.tokens, P).pos \in 0..EofIndex
               /\ P_advance(parser.tokens, P).pos \in {P.pos, P.pos + 1}
               /\ P_advance(parser.tokens, P).diag = P.diag
               /\ P_at_end(parser.tokens, P) => P_advance(parser.tokens, P) = P
               /\ ~P_at_end(parser.tokens, P) => P_advance(parser.tokens, P).pos = P.pos + 1
               /\ P_peek(parser.tokens, P) = parser.tokens[P.pos + 1]
               /\ \A k \in PeekOffsets :
                    \E i \in 1..Len(parser.tokens) :
                      /\ _peek_ahead(parser.tokens, P, k) = parser.tokens[i]
                      /\ i = IF P.pos + k <= EofIndex THEN P.pos + k + 1
                                                      ELSE Len(parser.tokens)
               /\ \E i \in (P.pos + 1)..Len(parser.tokens) :
                    /\ _peek_past_newlines(parser.tokens, P) = parser.tokens[i].kind
                    /\ parser.tokens[i].kind # "NEWLINE"
                    /\ \A j \in (P.pos + 1)..(i - 1) : parser.tokens[j].kind = "NEWLINE")
  /\ [][(parser.tokens # <<>> /\ parser'.tokens = parser.tokens) =>
          parser'.pos >= parser.pos]_vars

\* a parse that returned with the cursor on the EOF token, after it moved
\* over a declaration and the line break that follows it
C28_Witness ==
  /\ ParseReturned
  /\ Len(parser.tokens) > 3
  /\ parser.pos = EofIndex
  /\ parser.tokens[EofIndex].kind = "NEWLINE"
  /\ Len(parser.stmts) > 0

(***************************************************************************)
(* The order of evaluation.  In the expressions of SpecEval the left       *)
(* operand of the root is at column 11, the root's operator at column 13   *)
(* and the right operand at column 15, so the location of an error names   *)
(* the sub-expression that failed.                                         *)
(***************************************************************************)
\* `U / 0` and `(1 / 0) + U`
UndeclaredOverZero ==
  BinaryOp(<<"/">>, Identifier(<<"U">>, SourceLocation(1, 11)),
           IntLiteral(IntZero, SourceLocation(1, 15)), SourceLocation(1, 13))

ZeroDivisionPlusUndeclared ==
  BinaryOp(<<"+">>,
           ParenExpr(BinaryOp(<<"/">>, IntLiteral(IntOf(1), SourceLocation(1, 11)),
                              IntLiteral(IntZero, SourceLocation(1, 11)),
                              SourceLocation(1, 11)), SourceLocation(1, 11)),
           Identifier(<<"U">>, SourceLocation(1, 15)), SourceLocation(1, 13))

\* the result of evaluating one operand of the evaluated expression alone
OperandResult(operand) == evaluate_const_expr(operand, evaluation.env)

\* C29: the call reports the first failing sub-expression in left-to-right,
\* depth-first order: when the left operand of a BinaryOp fails, its error is
\* the result whatever the right operand is; when only the right operand
\* fails, its error is the result; the operator's own error (a zero divisor)
\* is raised at the operator only when both operands were evaluated; `U / 0`
\* with U not in env fails with the forward reference to U, `(1 / 0) + U`
\* with the division by zero; and the call leaves expr and env as they were
C29_FirstFailureInOrder ==
  /\ [](Evaluated =>
          /\ evaluation.expr.location = SourceLocation(1, 13) =>
               LET left  == OperandResult(evaluation.expr.left)
                   right == OperandResult(evaluation.expr.right)
               IN  /\ ~left.ok =>
                        /\ evaluation.result = left
                        /\ evaluation.result.location = SourceLocation(1, 11)
                   /\ (left.ok /\ ~right.ok) =>
                        /\ evaluation.result = right
                        /\ evaluation.result.location = SourceLocation(1, 15)
                   /\ (left.ok /\ right.ok /\ ~evaluation.result.ok) =>
                        /\ evaluation.result.location = SourceLocation(1, 13)
                        /\ evaluation.expr.op \in {<<"/">>, <<"m", "o", "d">>}
                   /\ (~evaluation.result.ok
                         /\ evaluation.result.location = SourceLocation(1, 13)
                         /\ evaluation.result.exc = "ConstEvalError") =>
                        /\ left.ok /\ right.ok
                        /\ right.value = IntZero
          /\ (evaluation.expr = UndeclaredOverZero /\ <<"U">> \notin DOMAIN evaluation.env) =>
               evaluation.result =
                 ConstEvalError("Forward reference to undeclared constant", <<"U">>,
                                SourceLocation(1, 11))
          /\ evaluation.expr = ZeroDivisionPlusUndeclared =>
               evaluation.result =
                 ConstEvalError("Division by zero in constant expression", <<>>,
                                SourceLocation(1, 11)))
  /\ [][/\ evaluation'.env = evaluation.env
        /\ evaluation'.expr = evaluation.expr]_vars

\* `U / 0` was evaluated with nothing declared and failed at U, not at `/`
C29_Witness ==
  /\ Evaluated
  /\ evaluation.expr = UndeclaredOverZero
  /\ evaluation.env = <<>>
  /\ ~evaluation.result.ok
  /\ evaluation.result.detail = <<"U">>
  /\ evaluation.result.location = SourceLocation(1, 11)

(***************************************************************************)
(* Declarations followed by further tokens on the same line: one line of   *)
(* a declaration and up to MaxSegments - 1 further segments separated by   *)
(* spaces, alone or followed by a const line.                              *)
(***************************************************************************)
MaxSegments == 3

ConstXLine == <<"c", "o", "n", "s", "t", " ", "X", " ", "=", " ", "1">>

LeftoverDeclarations == {ConstXLine, BufferLine, LetLine}

\* texts that start no declaration and continue none
LeftoverTexts ==
  {
    <<"2">>,
    <<"s", "t", "o", "r", "e", " ", "x">>,
    <<")", " ", "X">>,
    <<"l", "o", "o", "p">>
  }

RECURSIVE SegmentLines(_)
\* a declaration, then up to n - 1 declarations or other texts on its line
SegmentLines(n) ==
  IF n = 1 THEN LeftoverDeclarations
  ELSE SegmentLines(n - 1)
         \cup {(l \o <<" ">>) \o s : l \in SegmentLines(n - 1),
                                     s \in LeftoverDeclarations \cup LeftoverTexts}

FollowingLine == <<"c", "o", "n", "s", "t", " ", "Y", " ", "=", " ", "3">>

LeftoverSources ==
  SegmentLines(MaxSegments)
    \cup {(l \o <<"\n">>) \o FollowingLine : l \in SegmentLines(MaxSegments)}

InitLeftover ==
  /\ source \in LeftoverSources
  /\ pc = "tokenize"
  /\ lexer = LexerInit
  /\ diag = <<>>
  /\ parser = NoParser
  /\ outcome = Running
  /\ abandoned = <<>>
  /\ evaluation = NoEvaluation
  /\ runner = NoRunner
  /\ collector = NoCollector

SpecLeftover == InitLeftover /\ [][Next]_vars

\* the statement loop is about to start an iteration in the middle of a line:
\* the token before the cursor is not a line break and the current one is
\* neither a line break nor EOF
MidLine ==
  /\ pc = "_parse_body"
  /\ parser.pos > 0
  /\ parser.tokens[parser.pos].kind # "NEWLINE"
  /\ P_peek(parser.tokens, PState).kind \notin {"NEWLINE", "EOF"}

\* the node type of the declaration a keyword starts
DeclarationNode(kind) ==
  IF kind = "CONST" THEN "ConstDeclNode"
  ELSE IF kind = "BUFFER" THEN "BufferDeclNode"
  ELSE "LetDeclNode"

====
